---- MODULE Spec2Model ----
(***************************************************************************)
(* A model of the event-orchestration core of choui-the-no-gui-chatbot:    *)
(* the main loop of run_bot with its rate-limited Reaction Engine          *)
(* (src/src/main.rs), the startup authentication and the device flow with  *)
(* the token cache (src/src/main.rs, src/src/twitch.rs), and the EventSub  *)
(* WebSocket client with the subscription request (src/src/ws.rs,          *)
(* src/src/twitch.rs).                                                     *)
(*                                                                         *)
(* A Rust String is modelled as a sequence of one-character strings, so    *)
(* that contains / starts_with / trim / to_lowercase are computed as the   *)
(* standard library computes them.                                         *)
(* Strings the code only stores, compares or tests for emptiness (session  *)
(* ids, tokens) are TLA+ strings.                                          *)
(***************************************************************************)
EXTENDS Integers, Sequences, FiniteSets, TLC

VARIABLES
    \* ---- the main loop of run_bot (src/src/main.rs:324-668) ----
    now,            \* the monotonic clock (std::time::Instant), in ticks
    last_ai_reply,  \* main.rs:328, the rate-limit timestamp
    processed,      \* history: one record per event the loop has received
    tasks,          \* the dispatch tasks spawned by tokio::spawn (main.rs:391, 418)
    chat_out        \* the messages the tasks have handed to send_chat_message

mainVars == <<now, last_ai_reply, processed, tasks, chat_out>>

VARIABLES
    \* ---- startup authentication (main.rs:127-155, twitch.rs:112-192) ----
    auth_pc,        \* position of run_bot in the 'auth block and the device flow
    cache_file,     \* the content of .token_cache.json
    cached,         \* main.rs:128, the credential load_token_cache returned
    oauth_token,    \* main.rs:154, config.oauth_token
    auth_trace,     \* history: the authentication steps attempted, in order
    dev_interval,   \* twitch.rs:138, the poll interval of the device flow
    dev_log,        \* history: the sleeps and polls of the device flow
    dev_grant,      \* history: the token body the provider granted
    dev_resp,       \* history: the answer to the device-code request
    last_saved      \* history: the credential of the last successful save

authVars == <<auth_pc, cache_file, cached, oauth_token, auth_trace,
              dev_interval, dev_log, dev_grant, dev_resp, last_saved>>

VARIABLES
    \* ---- the EventSub client and the subscription (ws.rs:39-143,
    \*      main.rs:308-322, twitch.rs:194-234) ----
    es_pc,          \* position of run_bot from connect_eventsub_ws to the main loop
    es_task,        \* the spawned read task: "none", "running" or "ended"
    session_id,     \* ws.rs:47, the shared Mutex<String>
    es_result,      \* what connect_eventsub_ws returned
    es_frames,      \* history: the frames the read task has processed
    read_at,        \* history: how many frames were processed when the id was read
    event_queue,    \* the events sent into the mpsc channel (event_tx / tx)
    sub_requests,   \* the subscription requests that left the process
    sub_calls       \* history: the calls of subscribe_to_chat_messages

esVars == <<es_pc, es_task, session_id, es_result, es_frames, read_at,
            event_queue, sub_requests, sub_calls>>

\* The EventSub variables other than the channel, which every client and
\* run_bot itself send into.
esOwn == <<es_pc, es_task, session_id, es_result, es_frames, read_at,
           sub_requests, sub_calls>>

VARIABLES
    \* ---- the IRC client (ws.rs:146-230) ----
    irc_pc,         \* position of connect_irc_ws and of its read task
    irc_channel,    \* config.channel_name
    irc_sent,       \* the messages written to the IRC socket, in order
    irc_log,        \* history: the lines the read task has processed
    irc_read,       \* history: how many frames the read task has read
    irc_frames      \* history: the text frames the read task has read

ircVars == <<irc_pc, irc_channel, irc_sent, irc_log, irc_read, irc_frames>>

VARIABLES
    \* ---- the Asset Pipeline (main.rs:247-291) ----
    asset_pc,       \* "idle", "items" (in the loop over the list) or "done"
    asset_idx,      \* the position in the interest list of the next item
    asset_map,      \* the names the fetched map has a URL for
    disk,           \* assets/emotes/<name>.png: "absent", or what it holds
    asset_runs,     \* history: the runs of the pipeline and their map fetch
    asset_log       \* history: the items processed

assetVars == <<asset_pc, asset_idx, asset_map, disk, asset_runs, asset_log>>

VARIABLES
    \* ---- the broadcast Event Bus (main.rs:35, 341; gui.rs:134-149) ----
    bus_buf,        \* the events the channel retains, oldest first
    bus_sent,       \* how many events were sent into the channel
    bus_closed,     \* every sender has been dropped
    sub_pos,        \* how many sent events the subscriber is past
    sub_state,      \* the subscriber's receive loop: "receiving" or "ended"
    sub_got,        \* history: what rx.recv() returned to the subscriber
    bus_log         \* history: the events sent into the channel

busVars == <<bus_buf, bus_sent, bus_closed, sub_pos, sub_state, sub_got, bus_log>>

vars == <<mainVars, authVars, esVars, ircVars, assetVars, busVars>>

----------------------------------------------------------------------------
(* Bounds of the model.                                                    *)

\* Clock ticks per second, and how far the clock runs.
TicksPerSec == 2
MaxTicks == 3
\* Ticks that may pass between the two clock reads of one acceptance.
MaxSkew == 1
\* Events the main loop receives; fewer when the dispatch tasks run with it.
MaxEvents == 3
MaxDispatchEvents == 2
\* Polls of the token endpoint that the history of one device flow keeps:
\* the loop of twitch.rs:148 has no bound, the history drops its oldest
\* round when it holds this many.
MaxPolls == 3
\* Frames the EventSub connection delivers.
MaxFrames == 3
\* Calls of subscribe_to_chat_messages by a caller other than run_bot.
MaxCalls == 2
\* Frames the IRC connection delivers.
MaxIrcFrames == 2
\* Runs of the Asset Pipeline over the same assets directory.
MaxRuns == 2
\* Events the broadcast channel retains (main.rs:35 asks for 100).
Capacity == 2
\* The position in a frame of the line whose PONG cannot be written.
MaxLines == 2

----------------------------------------------------------------------------
(* Strings.                                                                *)

Last(s) == s[Len(s)]

\* char::to_ascii_lowercase: only A-Z change.
AsciiLowerChar(c) ==
    CASE c = "B" -> "b" [] c = "O" -> "o" [] c = "T" -> "t"
      [] c = "H" -> "h" [] c = "E" -> "e" [] c = "Y" -> "y"
      [] c = "I" -> "i" [] OTHER -> c

\* char::to_lowercase: Unicode lower-casing; agrees with the ASCII one on
\* ASCII and also maps the non-ASCII capitals.
ToLowerChar(c) ==
    IF c = "É" THEN "é" ELSE AsciiLowerChar(c)

AsciiLowercase(s) == [i \in 1..Len(s) |-> AsciiLowerChar(s[i])]

to_lowercase(s) == [i \in 1..Len(s) |-> ToLowerChar(s[i])]

\* str::eq_ignore_ascii_case
eq_ignore_ascii_case(a, b) == AsciiLowercase(a) = AsciiLowercase(b)

starts_with(s, p) == Len(p) <= Len(s) /\ SubSeq(s, 1, Len(p)) = p

ends_with(s, p) ==
    Len(p) <= Len(s) /\ SubSeq(s, Len(s) - Len(p) + 1, Len(s)) = p

contains(s, p) ==
    \E i \in 1..(Len(s) + 1) :
        i + Len(p) - 1 <= Len(s) /\ SubSeq(s, i, i + Len(p) - 1) = p

IsWhitespace(c) == c \in {" ", "\t", "\n", "\r"}

RECURSIVE trim_start(_)
trim_start(s) ==
    IF s # <<>> /\ IsWhitespace(Head(s)) THEN trim_start(Tail(s)) ELSE s

RECURSIVE trim_end(_)
trim_end(s) ==
    IF s # <<>> /\ IsWhitespace(Last(s))
    THEN trim_end(SubSeq(s, 1, Len(s) - 1)) ELSE s

\* str::find(char): the 0-based index of the first c in s, -1 for None.
find(s, c) ==
    IF \E i \in 1..Len(s) : s[i] = c
    THEN (CHOOSE i \in 1..Len(s) : s[i] = c /\ \A j \in 1..(i - 1) : s[j] # c) - 1
    ELSE -1

\* str::replace: every non-overlapping match of from, left to right.
RECURSIVE replace(_, _, _)
replace(s, from, to) ==
    IF s = <<>> THEN <<>>
    ELSE IF starts_with(s, from)
    THEN to \o replace(SubSeq(s, Len(from) + 1, Len(s)), from, to)
    ELSE <<Head(s)>> \o replace(Tail(s), from, to)

\* A line without the "\r" that ended it.
StripCr(line) ==
    IF line # <<>> /\ Last(line) = "\r"
    THEN SubSeq(line, 1, Len(line) - 1) ELSE line

RECURSIVE SplitLines(_, _)
SplitLines(text, cur) ==
    IF text = <<>> THEN (IF cur = <<>> THEN <<>> ELSE <<cur>>)
    ELSE IF Head(text) = "\n"
    THEN <<StripCr(cur)>> \o SplitLines(Tail(text), <<>>)
    ELSE SplitLines(Tail(text), Append(cur, Head(text)))

\* str::lines
lines(text) == SplitLines(text, <<>>)

\* str::trim
trim(s) == trim_end(trim_start(s))

\* str::trim_start_matches(pat): removes the prefix as often as it matches.
RECURSIVE trim_start_matches(_, _)
trim_start_matches(s, p) ==
    IF p # <<>> /\ starts_with(s, p)
    THEN trim_start_matches(SubSeq(s, Len(p) + 1, Len(s)), p)
    ELSE s

\* String literals of the source.
S_hey == <<"h", "e", "y">>
S_hello == <<"h", "e", "l", "l", "o">>
S_hi_sp == <<"h", "i", " ">>
S_intro == <<"i", "n", "t", "r", "o">>
S_qmark == <<"?">>
S_bot_cmd == <<"!", "b", "o", "t">>
S_bot_cmd_sp == <<"!", "b", "o", "t", " ">>
S_User_sp == <<"U", "s", "e", "r", " ">>
S_colon_sp == <<":", " ">>
S_at == <<"@">>
S_sp == <<" ">>
S_TestUser == <<"T", "e", "s", "t", "U", "s", "e", "r">>
S_join_prompt == <<" just joined. Welcome them excitedly with a single short sentence. Do not ask any questions.">>

----------------------------------------------------------------------------
(* AppEvent (crate::state, used at main.rs:344-448).  Every variant is kept  *)
(* in one record shape: `user` is the user of ChatMessage / UserJoined /    *)
(* UserLeft (the name of an EmoteImage), `text` the text of a ChatMessage   *)
(* (the message of Error / Info).                                           *)

ChatMessage(u, t) == [type |-> "ChatMessage", user |-> u, text |-> t]
UserJoined(u) == [type |-> "UserJoined", user |-> u, text |-> <<>>]
UserLeft(u) == [type |-> "UserLeft", user |-> u, text |-> <<>>]
InfoEvent(m) == [type |-> "Info", user |-> <<>>, text |-> m]
ErrorEvent(m) == [type |-> "Error", user |-> <<>>, text |-> m]

\* The login the bot runs under (bot_login, main.rs:195).
BotLogin == <<"b", "o", "t">>

\* The users and texts the producers' events are drawn from.
U_bob == <<"b", "o", "b">>
U_BoT == <<"B", "o", "T">>
Users == {U_bob, U_BoT}

T_hey == <<"h", "e", "y">>
T_ok == <<"o", "k">>
T_cmd == <<"!", "b", "o", "t", " ", "h", "i">>
Texts == {T_hey, T_ok, T_cmd}

\* Texts of the chat notifications: a question, a greeting with blanks
\* around it, a text that triggers nothing, a command.
T_hello_q == <<"h", "e", "l", "l", "o", "?">>
T_padded == <<" ", "h", "e", "y", " ">>
NotificationTexts == {T_hello_q, T_padded, T_ok, T_cmd}

ProducerEvents ==
    {ChatMessage(u, t) : u \in Users, t \in Texts}
        \cup {UserJoined(U_bob), UserLeft(U_bob)}

----------------------------------------------------------------------------
(* The Reaction Engine (main.rs:345-430).                                  *)

OneSec == TicksPerSec
StartTime == 10 * OneSec

\* A comparison that tells "BoT" from "bot" (a faulty variant of IsOwnMessage).
IsOwnMessageCaseSensitive(user) == user = BotLogin

\* main.rs:355
IsOwnMessage(user) == eq_ignore_ascii_case(user, BotLogin)

\* main.rs:366-372
\* A predicate that takes "hi" without the blank after it (a faulty variant
\* of is_trigger).
is_trigger_without_blank(text) ==
    LET text_lower == to_lowercase(text) IN
        \/ contains(text_lower, S_hey)
        \/ contains(text_lower, S_hello)
        \/ contains(text_lower, <<"h", "i">>)
        \/ contains(text_lower, S_intro)
        \/ ends_with(text, S_qmark)
        \/ starts_with(text_lower, S_bot_cmd)

is_trigger(text) ==
    LET text_lower == to_lowercase(text) IN
        \/ contains(text_lower, S_hey)
        \/ contains(text_lower, S_hello)
        \/ contains(text_lower, S_hi_sp)
        \/ contains(text_lower, S_intro)
        \/ ends_with(text, S_qmark)
        \/ starts_with(text_lower, S_bot_cmd)

\* A rate limit with no window (a faulty variant of RateLimitAllows).
RateLimitAllowsNoWindow(t, last) == t - last >= 0

\* main.rs:376
RateLimitAllows(t, last) == t - last >= OneSec

\* main.rs:379-383
PromptOf(text) ==
    IF starts_with(to_lowercase(text), S_bot_cmd)
    THEN trim(trim_start_matches(text, S_bot_cmd_sp))
    ELSE trim(text)

\* A prompt that leaves the user out (a faulty variant of ChatPromptString).
ChatPromptStringNoUser(user, prompt) == prompt

\* main.rs:389
ChatPromptString(user, prompt) == S_User_sp \o user \o S_colon_sp \o prompt

\* main.rs:419
JoinPromptString(user) == S_User_sp \o user \o S_join_prompt

\* A reply sent without the mention of the user (a faulty variant of
\* FullReply).
FullReplyNoMention(user, reply) == reply

\* main.rs:394, 422
FullReply(user, reply) == S_at \o user \o S_sp \o reply

\* A spawned dispatch task: `src` is the index in `processed` of the event
\* that spawned it, `stage` its position in the async block.
Task(src, kind, user, prompt) ==
    [src |-> src, kind |-> kind, user |-> user, prompt |-> prompt,
     stage |-> "ask_ai"]

\* The reply text the AI responder returns (ask_ai, src/src/ai.rs:7-12).
AiReply == <<"y", "o">>

----------------------------------------------------------------------------
(* The token cache (twitch.rs:175-192).                                    *)

None == "none"

\* .token_cache.json: absent, not JSON ("malformed"), or a JSON object with
\* an access_token and a refresh_token member, each a string or missing.
CacheFile(kind, access, refresh) ==
    [kind |-> kind, access_token |-> access, refresh_token |-> refresh]

AbsentFile == CacheFile("absent", None, None)
MalformedFile == CacheFile("malformed", None, None)

Credential(access, refresh) ==
    [access_token |-> access, refresh_token |-> refresh]

\* twitch.rs:176: the record save_token_cache writes holds the access token
\* and nothing else.
SavedRecord(cred) == CacheFile("json", cred.access_token, None)

\* twitch.rs:175-180: save_token_cache.  File::create may fail (the file
\* stays as it was) and write_all may fail (the file was truncated by
\* create and holds no complete record).
SaveOutcomes == {"ok", "create_fails", "write_fails"}

save_token_cache(file, cred, io) ==
    CASE io = "ok" -> SavedRecord(cred)
      [] io = "create_fails" -> file
      [] OTHER -> MalformedFile

\* twitch.rs:182-192: load_token_cache fails when the file is absent, is not
\* JSON, or has no string access_token; otherwise it yields the token.
LoadOk(file) == file.kind = "json" /\ file.access_token # None

\* main.rs:139 reads cached.refresh_token: the credential the loader returns
\* carries the refresh_token member of the record.
CachedRefreshToken(file) == file.refresh_token

load_token_cache(file) ==
    Credential(file.access_token, CachedRefreshToken(file))

----------------------------------------------------------------------------
(* Startup authentication (main.rs:127-155) and the device flow            *)
(* (twitch.rs:112-173).                                                    *)

\* What the cache file may hold when run_bot starts.
InitialCacheFiles ==
    {AbsentFile, MalformedFile,
     CacheFile("json", None, "refC"),
     CacheFile("json", "tokC", None),
     CacheFile("json", "tokC", "refC")}

\* validate_token's results: Ok(true), Ok(false), Err (a network failure).
ValidateOutcomes == {"valid", "invalid", "error"}

\* refresh_token's results: Err, or Ok with a new credential.
RefreshOutcomes ==
    {[ok |-> FALSE, cred |-> Credential(None, None)],
     [ok |-> TRUE, cred |-> Credential("tokR", None)],
     [ok |-> TRUE, cred |-> Credential("tokR", "refR")]}

\* The device-code endpoint's answers (twitch.rs:118-128): the request
\* fails, a non-success status, or a success whose JSON body has the given
\* members and interval.
DeviceFieldsTwitch ==
    {"device_code", "user_code", "verification_uri", "expires_in", "interval"}
DeviceFieldsUnderscore ==
    {"device_code", "user_code", "verification_uri", "_expires_in", "interval"}

DeviceResponse(net, status, fields, interval) ==
    [net |-> net, status_ok |-> status, fields |-> fields, interval |-> interval]

\* The four members the device-code response is specified to carry.
DeviceFieldsFour ==
    {"device_code", "user_code", "verification_uri", "interval"}

\* No device-code request was made.
NoDeviceResponse == DeviceResponse(FALSE, FALSE, {}, 0)

DeviceResponses ==
    {DeviceResponse(FALSE, FALSE, {}, 0),
     DeviceResponse(TRUE, TRUE, DeviceFieldsFour, 5),
     DeviceResponse(TRUE, FALSE, {}, 0),
     DeviceResponse(TRUE, TRUE, DeviceFieldsTwitch, 5),
     DeviceResponse(TRUE, TRUE, DeviceFieldsUnderscore, 0),
     DeviceResponse(TRUE, TRUE, DeviceFieldsUnderscore, 5)}

\* twitch.rs:95-102, 128: serde accepts a body as DeviceAuthRequest when it
\* has every member the struct names.
DeviceAuthRequestParses(fields) ==
    {"device_code", "user_code", "verification_uri", "_expires_in", "interval"}
        \subseteq fields

\* twitch.rs:138
PollInterval(interval) == interval + 1

\* The token endpoint's answers to a poll (twitch.rs:151-171): the request
\* fails; a success status with a JSON body (`access` is None when the body
\* has no access_token); or a non-success status with an error text
\* (`readable` is FALSE when reading the body fails).
PollResponse(net, status, access, refresh, readable, text) ==
    [net |-> net, status_ok |-> status, access_token |-> access,
     refresh_token |-> refresh, readable |-> readable, text |-> text]

E_pending == <<"{", "message", ":", "authorization_pending", "}">>
E_slow == <<"{", "message", ":", "slow_down", "}">>
E_denied == <<"{", "message", ":", "access_denied", "}">>
E_expired == <<"{", "message", ":", "invalid", "device", "code", "}">>

PollResponses ==
    {PollResponse(FALSE, FALSE, None, None, FALSE, <<>>),
     PollResponse(TRUE, TRUE, "tokD", None, TRUE, <<>>),
     PollResponse(TRUE, TRUE, "tokD", "refD", TRUE, <<>>),
     PollResponse(TRUE, TRUE, None, None, TRUE, <<>>),
     PollResponse(TRUE, FALSE, None, None, FALSE, <<>>),
     PollResponse(TRUE, FALSE, None, None, TRUE, E_pending),
     PollResponse(TRUE, FALSE, None, None, TRUE, E_slow),
     PollResponse(TRUE, FALSE, None, None, TRUE, E_denied),
     PollResponse(TRUE, FALSE, None, None, TRUE, E_expired)}

\* A load error that aborts startup (a faulty variant of AfterLoad).
AfterLoadAborting(file) ==
    IF LoadOk(file) THEN "validate" ELSE "aborted"

\* main.rs:128, 150: a cached credential is validated; without one the
\* device flow starts.
AfterLoad(file) ==
    IF LoadOk(file) THEN "validate" ELSE "dev_request"

\* A validation whose network error is propagated (a faulty
\* variant of AfterValidate).
AfterValidatePropagating(outcome, cred) ==
    CASE outcome = "valid" -> "authenticated"
      [] outcome = "error" -> "aborted"
      [] cred.refresh_token # None -> "refresh"
      [] OTHER -> "dev_request"

\* main.rs:130-150: unwrap_or(false) makes an Err an invalid token; an
\* invalid token is refreshed when the credential has a refresh token, and
\* otherwise the device flow starts.
AfterValidate(outcome, cred) ==
    CASE outcome = "valid" -> "authenticated"
      [] cred.refresh_token # None -> "refresh"
      [] OTHER -> "dev_request"

\* A refresh that is tried again when it fails (a faulty variant of AfterRefresh).
AfterRefreshRetrying(ok) ==
    IF ok THEN "authenticated" ELSE "refresh"

\* main.rs:141-150
AfterRefresh(ok) ==
    IF ok THEN "authenticated" ELSE "dev_request"

\* A poll loop that keeps polling on every error text (a faulty
\* variant of PollDecision).
PollDecisionTolerant(resp) ==
    CASE ~resp.net -> "error"
      [] resp.status_ok /\ resp.access_token = None -> "error"
      [] resp.status_ok -> "granted"
      [] ~resp.readable -> "error"
      [] OTHER -> "continue"

\* twitch.rs:151-171: what one poll leads to.
PollDecision(resp) ==
    CASE ~resp.net -> "error"
      [] resp.status_ok /\ resp.access_token = None -> "error"
      [] resp.status_ok -> "granted"
      [] ~resp.readable -> "error"
      [] contains(resp.text, <<"authorization_pending">>) -> "continue"
      [] contains(resp.text, <<"slow_down">>) -> "continue"
      [] OTHER -> "error"

\* A device flow that returns the token although the save failed (a
\* faulty variant of AfterDeviceSave).
AfterDeviceSaveIgnoring(io) == "authenticated"

\* twitch.rs:160-161: the token is returned only when the save succeeded.
AfterDeviceSave(io) ==
    IF io = "ok" THEN "authenticated" ELSE "aborted"

\* One entry of the history of authentication steps: the step, how it
\* ended, and the access token it yielded (None when it yielded none).
Step(name, outcome, token) ==
    [step |-> name, outcome |-> outcome, token |-> token]

NoGrant ==
    [granted |-> FALSE, access_token |-> None, refresh_token |-> None,
     save |-> "ok"]

NothingSaved == [saved |-> FALSE, cred |-> Credential(None, None)]

Saved(cred) == [saved |-> TRUE, cred |-> cred]

\* One entry of the history of the device flow: a sleep of `secs` seconds,
\* or a poll with the decision it led to and the error text it read.
SleepEntry(secs) ==
    [op |-> "sleep", secs |-> secs, decision |-> "none", text |-> <<>>]

PollEntry(resp, decision) ==
    [op |-> "poll", secs |-> 0, decision |-> decision,
     text |-> IF resp.net /\ ~resp.status_ok /\ resp.readable
              THEN resp.text ELSE <<>>]

\* The state in which run_bot enters the 'auth block.
AuthInit ==
    /\ auth_pc = "load"
    /\ cache_file \in InitialCacheFiles
    /\ cached = Credential(None, None)
    /\ oauth_token = None
    /\ auth_trace = <<>>
    /\ dev_interval = 0
    /\ dev_resp = NoDeviceResponse
    /\ dev_log = <<>>
    /\ dev_grant = NoGrant
    /\ last_saved = NothingSaved

\* main.rs:128
LoadCache ==
    /\ auth_pc = "load"
    /\ auth_pc' = AfterLoad(cache_file)
    /\ cached' = IF LoadOk(cache_file) THEN load_token_cache(cache_file)
                 ELSE cached
    /\ auth_trace' = Append(auth_trace,
           Step("load", IF LoadOk(cache_file) THEN "ok" ELSE "err", None))
    /\ UNCHANGED <<cache_file, oauth_token, dev_interval, dev_resp, dev_log,
                   dev_grant, last_saved>>
    /\ UNCHANGED <<mainVars, esVars, ircVars, assetVars, busVars>>

\* main.rs:130-138
Validate(outcome) ==
    /\ auth_pc = "validate"
    /\ auth_pc' = AfterValidate(outcome, cached)
    /\ oauth_token' = IF AfterValidate(outcome, cached) = "authenticated"
                      THEN cached.access_token ELSE oauth_token
    /\ auth_trace' = Append(auth_trace, Step("validate", outcome, None))
    /\ UNCHANGED <<cache_file, cached, dev_interval, dev_resp, dev_log, dev_grant,
                   last_saved>>
    /\ UNCHANGED <<mainVars, esVars, ircVars, assetVars, busVars>>

\* main.rs:139-147: the refresh; on success the new credential is saved,
\* the result of the save being dropped.
Refresh(res, io) ==
    /\ auth_pc = "refresh"
    /\ auth_pc' = AfterRefresh(res.ok)
    /\ auth_trace' = Append(auth_trace,
           Step("refresh", IF res.ok THEN "ok" ELSE "err", res.cred.access_token))
    /\ IF res.ok
       THEN /\ cache_file' = save_token_cache(cache_file, res.cred, io)
            /\ last_saved' = IF io = "ok" THEN Saved(res.cred) ELSE last_saved
            /\ oauth_token' = IF AfterRefresh(res.ok) = "authenticated"
                              THEN res.cred.access_token ELSE oauth_token
       ELSE /\ io = "ok"
            /\ UNCHANGED <<cache_file, last_saved, oauth_token>>
    /\ UNCHANGED <<cached, dev_interval, dev_resp, dev_log, dev_grant>>
    /\ UNCHANGED <<mainVars, esVars, ircVars, assetVars, busVars>>

\* main.rs:150-151, twitch.rs:113-138: the device flow starts with the
\* device-code request.
DeviceRequest(resp) ==
    /\ auth_pc = "dev_request"
    /\ LET ok == resp.net /\ resp.status_ok
                    /\ DeviceAuthRequestParses(resp.fields)
       IN
        /\ auth_pc' = IF ok THEN "dev_sleep" ELSE "aborted"
        /\ dev_interval' = IF ok THEN PollInterval(resp.interval)
                           ELSE dev_interval
        /\ dev_resp' = resp
        /\ auth_trace' = Append(auth_trace,
               Step("device", IF ok THEN "started" ELSE "err", None))
    /\ UNCHANGED <<cache_file, cached, oauth_token, dev_log, dev_grant,
                   last_saved>>
    /\ UNCHANGED <<mainVars, esVars, ircVars, assetVars, busVars>>

Polls == Len(SelectSeq(dev_log, LAMBDA e : e.op = "poll"))

\* The rounds of the poll loop that the history keeps when another begins.
Recent(log) ==
    IF Polls < MaxPolls THEN log ELSE SubSeq(log, 3, Len(log))

\* A poll loop that gives up after MaxPolls polls, as one that stops at the
\* device code's expiry would (a faulty variant of DeviceSleep).
DeviceSleepUntilExpiry ==
    /\ auth_pc = "dev_sleep"
    /\ auth_pc' = IF Polls < MaxPolls THEN "dev_poll" ELSE "aborted"
    /\ dev_log' = IF Polls < MaxPolls
                  THEN Append(dev_log, SleepEntry(dev_interval))
                  ELSE dev_log
    /\ UNCHANGED <<cache_file, cached, oauth_token, auth_trace, dev_interval,
                   dev_resp, dev_grant, last_saved>>
    /\ UNCHANGED <<mainVars, esVars, ircVars, assetVars, busVars>>

\* twitch.rs:148-149: the loop begins another round whatever the number of
\* rounds before it.
DeviceSleep ==
    /\ auth_pc = "dev_sleep"
    /\ auth_pc' = "dev_poll"
    /\ dev_log' = Append(Recent(dev_log), SleepEntry(dev_interval))
    /\ UNCHANGED <<cache_file, cached, oauth_token, auth_trace, dev_interval,
                   dev_resp, dev_grant, last_saved>>
    /\ UNCHANGED <<mainVars, esVars, ircVars, assetVars, busVars>>

\* twitch.rs:151-171: one poll of the token endpoint; on success the token
\* is saved and, the save having succeeded, returned (main.rs:152-154).
DevicePoll(resp, io) ==
    /\ auth_pc = "dev_poll"
    /\ dev_log' = Append(dev_log, PollEntry(resp, PollDecision(resp)))
    /\ LET d == PollDecision(resp)
           cred == Credential(resp.access_token, None)
       IN
        IF d = "granted"
        THEN /\ dev_grant' = [granted |-> TRUE,
                              access_token |-> resp.access_token,
                              refresh_token |-> resp.refresh_token,
                              save |-> io]
             /\ cache_file' = save_token_cache(cache_file, cred, io)
             /\ last_saved' = IF io = "ok" THEN Saved(cred) ELSE last_saved
             /\ auth_pc' = AfterDeviceSave(io)
             /\ oauth_token' = IF AfterDeviceSave(io) = "authenticated"
                               THEN resp.access_token ELSE oauth_token
        ELSE /\ io = "ok"
             /\ auth_pc' = IF d = "continue" THEN "dev_sleep" ELSE "aborted"
             /\ UNCHANGED <<dev_grant, cache_file, last_saved, oauth_token>>
    /\ auth_trace' =
         IF auth_pc' \in {"authenticated", "aborted"}
         THEN Append(auth_trace,
                  Step("device_end", IF auth_pc' = "aborted" THEN "err" ELSE "ok",
                       IF auth_pc' = "aborted" THEN None ELSE resp.access_token))
         ELSE auth_trace
    /\ UNCHANGED <<cached, dev_interval, dev_resp>>
    /\ UNCHANGED <<mainVars, esVars, ircVars, assetVars, busVars>>

AuthNext ==
    \/ LoadCache
    \/ \E outcome \in ValidateOutcomes : Validate(outcome)
    \/ \E res \in RefreshOutcomes : \E io \in SaveOutcomes : Refresh(res, io)
    \/ \E resp \in DeviceResponses : DeviceRequest(resp)
    \/ DeviceSleep
    \/ \E resp \in PollResponses : \E io \in SaveOutcomes : DevicePoll(resp, io)

\* The authentication is over: the state of the auth variables while the
\* main loop runs.
AuthOver ==
    /\ auth_pc = "authenticated"
    /\ cache_file = CacheFile("json", "tokC", None)
    /\ cached = Credential("tokC", None)
    /\ oauth_token = "tokC"
    /\ auth_trace = <<Step("load", "ok", None), Step("validate", "valid", None)>>
    /\ dev_interval = 0
    /\ dev_resp = NoDeviceResponse
    /\ dev_log = <<>>
    /\ dev_grant = NoGrant
    /\ last_saved = NothingSaved

----------------------------------------------------------------------------
(* The EventSub client (ws.rs:39-143) and the subscription request         *)
(* (twitch.rs:194-234, main.rs:308-322).                                   *)

\* The event member of a notification payload: a JSON object whose members
\* chatter_user_login and message.text are present or not.
EventJson(has_login, login, has_text, text) ==
    [has_login |-> has_login, login |-> login,
     has_text |-> has_text, text |-> text]

NoEventJson == EventJson(FALSE, <<>>, FALSE, <<>>)

\* The payload of an envelope: session.id and event, present or not.
Payload(has_session_id, id, has_event, event) ==
    [has_session_id |-> has_session_id, session_id |-> id,
     has_event |-> has_event, event |-> event]

EmptyPayload == Payload(FALSE, "", FALSE, NoEventJson)

\* One item of the WebSocket stream: a text frame (whose text is an envelope
\* or not), a close frame, a read error, or another frame (ping, pong,
\* binary).
Frame(kind, is_envelope, message_type, payload) ==
    [kind |-> kind, is_envelope |-> is_envelope,
     message_type |-> message_type, payload |-> payload]

TextFrame(message_type, payload) == Frame("text", TRUE, message_type, payload)

Welcome(id) ==
    TextFrame("session_welcome", Payload(TRUE, id, FALSE, NoEventJson))

Notification(event) ==
    TextFrame("notification", Payload(FALSE, "", TRUE, event))

SessionIds == {"", "abc123", "xyz789"}

Frames ==
    {Welcome(id) : id \in SessionIds}
        \cup {TextFrame("session_welcome", EmptyPayload),
              Notification(EventJson(TRUE, U_bob, TRUE, T_hey)),
              Notification(EventJson(TRUE, U_bob, FALSE, <<>>)),
              TextFrame("notification", EmptyPayload),
              TextFrame("session_keepalive", EmptyPayload),
              TextFrame("session_reconnect", EmptyPayload),
              Frame("text", FALSE, "", EmptyPayload),
              Frame("other", FALSE, "", EmptyPayload),
              Frame("close", FALSE, "", EmptyPayload),
              Frame("error", FALSE, "", EmptyPayload)}

\* ws.rs:12-19, 81-82: serde accepts the payload as SessionWelcomePayload
\* when it has session.id.
WelcomeParses(payload) == payload.has_session_id

\* A parse that accepts an event without message.text (a faulty variant of
\* ChatMessageEventParses).
ChatMessageEventParsesLoosely(event) == event.has_login

\* ws.rs:29-37, 94: serde accepts the event as ChatMessageEvent when it has
\* chatter_user_login and message.text.
ChatMessageEventParses(event) == event.has_login /\ event.has_text

S_ws_closed == <<"WebSocket closed">>
S_parse_error == <<"Parse error">>
S_welcome_failed == <<"Failed to parse welcome">>
S_irc_connected == <<"IRC Connected - Listening for Joins">>
S_subscribed == <<"Subscribed to chat">>
S_sub_failed == <<"Subscription failed">>

\* A welcome that keeps the id already stored (a faulty
\* variant of StoredSessionId).
StoredSessionIdKeepFirst(old, id) == IF old = "" THEN id ELSE old

\* ws.rs:84-85: the id of the welcome replaces the stored one.
StoredSessionId(old, id) == id

\* A client that reports every envelope it has no use for (a faulty variant
\* of FrameEvents).
FrameEventsReportingUnknown(f) ==
    CASE f.kind = "close" -> <<ErrorEvent(S_ws_closed)>>
      [] f.kind # "text" -> <<>>
      [] ~f.is_envelope -> <<ErrorEvent(S_parse_error)>>
      [] f.message_type = "session_welcome" /\ ~WelcomeParses(f.payload) ->
            <<ErrorEvent(S_welcome_failed)>>
      [] /\ f.message_type = "notification"
         /\ f.payload.has_event
         /\ ChatMessageEventParses(f.payload.event) ->
            <<ChatMessage(f.payload.event.login, f.payload.event.text)>>
      [] f.message_type \in {"session_welcome", "notification"} -> <<>>
      [] OTHER -> <<ErrorEvent(S_parse_error)>>

\* ws.rs:57-128: the events one frame makes the read task send.
FrameEvents(f) ==
    CASE f.kind = "close" -> <<ErrorEvent(S_ws_closed)>>
      [] f.kind # "text" -> <<>>
      [] ~f.is_envelope -> <<ErrorEvent(S_parse_error)>>
      [] f.message_type = "session_welcome" /\ ~WelcomeParses(f.payload) ->
            <<ErrorEvent(S_welcome_failed)>>
      [] /\ f.message_type = "notification"
         /\ f.payload.has_event
         /\ ChatMessageEventParses(f.payload.event) ->
            <<ChatMessage(f.payload.event.login, f.payload.event.text)>>
      [] OTHER -> <<>>

\* The frame is a welcome whose payload parses.
IsWelcome(f) ==
    /\ f.kind = "text" /\ f.is_envelope
    /\ f.message_type = "session_welcome"
    /\ WelcomeParses(f.payload)

NoResult == [returned |-> FALSE, ok |-> FALSE, id |-> ""]
Returned(ok, id) == [returned |-> TRUE, ok |-> ok, id |-> id]

\* The state in which run_bot calls connect_eventsub_ws (main.rs:308).
EsInit ==
    /\ es_pc = "connect"
    /\ es_task = "none"
    /\ session_id = ""
    /\ es_result = NoResult
    /\ es_frames = <<>>
    /\ read_at = -1
    /\ event_queue = <<>>
    /\ sub_requests = <<>>
    /\ sub_calls = <<>>

\* ws.rs:44-50: the handshake; on success the read task is spawned and
\* connect_eventsub_ws starts its wait, on failure run_bot is aborted.
EsConnect(ok) ==
    /\ es_pc = "connect"
    /\ es_pc' = IF ok THEN "sleeping" ELSE "aborted"
    /\ es_task' = IF ok THEN "running" ELSE "none"
    /\ es_result' = IF ok THEN es_result ELSE Returned(FALSE, "")
    /\ UNCHANGED <<session_id, es_frames, read_at, event_queue, sub_requests,
                   sub_calls>>
    /\ UNCHANGED <<mainVars, authVars, ircVars, assetVars, busVars>>

\* ws.rs:55-130: the read task processes the next item of the stream.
EsFrame(f) ==
    /\ es_task = "running"
    /\ Len(es_frames) < MaxFrames
    /\ es_frames' = Append(es_frames, f)
    /\ session_id' = IF IsWelcome(f)
                     THEN StoredSessionId(session_id, f.payload.session_id)
                     ELSE session_id
    /\ event_queue' = event_queue \o FrameEvents(f)
    /\ es_task' = IF f.kind = "close" THEN "ended" ELSE "running"
    /\ UNCHANGED <<es_pc, es_result, read_at, sub_requests, sub_calls>>
    /\ UNCHANGED <<mainVars, authVars, ircVars, assetVars, busVars>>

\* ws.rs:55, 131: the stream ends and the read task returns.
EsStreamEnds ==
    /\ es_task = "running"
    /\ es_task' = "ended"
    /\ UNCHANGED <<es_pc, session_id, es_result, es_frames, read_at,
                   event_queue, sub_requests, sub_calls>>
    /\ UNCHANGED <<mainVars, authVars, ircVars, assetVars, busVars>>

\* ws.rs:135: the two seconds of the startup wait are over.
EsWaitEnds ==
    /\ es_pc = "sleeping"
    /\ es_pc' = "woken"
    /\ UNCHANGED <<es_task, session_id, es_result, es_frames, read_at,
                   event_queue, sub_requests, sub_calls>>
    /\ UNCHANGED <<mainVars, authVars, ircVars, assetVars, busVars>>

\* A read that returns whatever is stored, empty or not (a faulty variant of
\* ReadOutcome).
ReadOutcomeUnchecked(id) == Returned(TRUE, id)

\* ws.rs:137-142: the id read after the wait is returned unless it is empty.
ReadOutcome(id) ==
    IF id = "" THEN Returned(FALSE, "") ELSE Returned(TRUE, id)

\* ws.rs:137-142, main.rs:308-309: the id is read under the lock; an empty
\* id is an error, which aborts run_bot.
EsReadSessionId ==
    /\ es_pc = "woken"
    /\ read_at' = Len(es_frames)
    /\ es_result' = ReadOutcome(session_id)
    /\ es_pc' = IF ReadOutcome(session_id).ok THEN "returned" ELSE "aborted"
    /\ UNCHANGED <<es_task, session_id, es_frames, event_queue, sub_requests, sub_calls>>
    /\ UNCHANGED <<mainVars, authVars, ircVars, assetVars, busVars>>

\* main.rs:312, ws.rs:146-176: the IRC client connects, logs in and reports
\* it; a failure aborts run_bot.
ConnectIrc(ok) ==
    /\ es_pc = "returned"
    /\ es_pc' = IF ok THEN "irc_connected" ELSE "aborted"
    /\ event_queue' = IF ok THEN Append(event_queue, InfoEvent(S_irc_connected))
                      ELSE event_queue
    /\ UNCHANGED <<es_task, session_id, es_result, es_frames, read_at,
                   sub_requests, sub_calls>>
    /\ UNCHANGED <<mainVars, authVars, ircVars, assetVars, busVars>>

\* The answers of the subscription endpoint: the request fails, a status
\* other than 202, a 202 without a subscription id, a 202 with one.
SubscribeResponses == {"send_fails", "rejected", "no_id", "accepted"}

\* twitch.rs:194-234: subscribe_to_chat_messages.  The request is built and
\* sent whenever the token is set; `sent` tells whether a request left the
\* process, `request` is what it carried.
subscribe_to_chat_messages(sid, token, resp) ==
    [sent |-> token # None,
     request |-> [session_id |-> sid, token |-> token],
     ok |-> token # None /\ resp = "accepted"]

\* One call of subscribe_to_chat_messages and what it did.
Call(sid, token, resp, r) ==
    [session_id |-> sid, token |-> token, resp |-> resp,
     sent |-> r.sent, ok |-> r.ok]

\* A startup that gives up when the subscription fails (a faulty variant of
\* AfterSubscribe).
AfterSubscribePropagating(ok) == IF ok THEN "main_loop" ELSE "aborted"

\* main.rs:315-322: both arms of the match only send an event; run_bot goes
\* on to the main loop.
AfterSubscribe(ok) == "main_loop"

\* main.rs:315-322: the subscription; its outcome is reported as an event
\* and the main loop starts.
Subscribe(resp) ==
    /\ es_pc = "irc_connected"
    /\ LET r == subscribe_to_chat_messages(es_result.id, oauth_token, resp) IN
        /\ sub_requests' = IF r.sent THEN Append(sub_requests, r.request)
                           ELSE sub_requests
        /\ event_queue' = Append(event_queue,
               IF r.ok THEN InfoEvent(S_subscribed) ELSE ErrorEvent(S_sub_failed))
        /\ sub_calls' = Append(sub_calls,
               Call(es_result.id, oauth_token, resp, r))
        /\ es_pc' = AfterSubscribe(r.ok)
    /\ UNCHANGED <<es_task, session_id, es_result, es_frames, read_at>>
    /\ UNCHANGED <<mainVars, authVars, ircVars, assetVars, busVars>>

EsNext ==
    \/ \E ok \in BOOLEAN : EsConnect(ok)
    \/ \E f \in Frames : EsFrame(f)
    \/ EsStreamEnds
    \/ EsWaitEnds
    \/ EsReadSessionId
    \/ \E ok \in BOOLEAN : ConnectIrc(ok)
    \/ \E resp \in SubscribeResponses : Subscribe(resp)

\* The startup is over and the main loop runs: the state of the EventSub
\* variables in the specifications of the main loop.
EsOver ==
    /\ es_pc = "main_loop"
    /\ es_task = "running"
    /\ session_id = "abc123"
    /\ es_result = Returned(TRUE, "abc123")
    /\ es_frames = <<Welcome("abc123")>>
    /\ read_at = 1
    /\ event_queue = <<>>
    /\ sub_requests = <<[session_id |-> "abc123", token |-> "tokC"]>>
    /\ sub_calls = <<[session_id |-> "abc123", token |-> "tokC",
                      resp |-> "accepted", sent |-> TRUE, ok |-> TRUE]>>

\* subscribe_to_chat_messages called on its own, by a caller that passes
\* any session id and a configuration with or without a token.
CallSubscribe(sid, token, resp) ==
    /\ Len(sub_calls) < MaxCalls
    /\ LET r == subscribe_to_chat_messages(sid, token, resp) IN
        /\ sub_requests' = IF r.sent THEN Append(sub_requests, r.request)
                           ELSE sub_requests
        /\ sub_calls' = Append(sub_calls, Call(sid, token, resp, r))
    /\ UNCHANGED <<es_pc, es_task, session_id, es_result, es_frames, read_at,
                   event_queue>>
    /\ UNCHANGED <<mainVars, authVars, ircVars, assetVars, busVars>>

----------------------------------------------------------------------------
(* The IRC client (ws.rs:146-230).                                         *)

S_PING == <<"P", "I", "N", "G">>
S_PONG == <<"P", "O", "N", "G">>
S_join_marker == <<" ", "J", "O", "I", "N", " ", "#">>
S_part_marker == <<" ", "P", "A", "R", "T", " ", "#">>
S_colon == <<":">>

\* ws.rs:219-230: parse_irc_user; <<>> stands for None (Some is never
\* empty).
parse_irc_user(line) ==
    IF ~starts_with(line, S_colon) THEN <<>>
    ELSE LET end == find(line, "!") IN
        IF end = -1 THEN <<>>
        ELSE IF end > 1 THEN SubSeq(line, 2, end) ELSE <<>>

\* ws.rs:189: the reply to a PING line.
PongReply(line) == replace(line, S_PING, S_PONG)

\* A line handler that emits an event whatever the sender prefix is (a
\* faulty variant of LineEvents).
LineEventsUnparsed(line) ==
    IF contains(line, S_join_marker) THEN <<UserJoined(parse_irc_user(line))>>
    ELSE IF contains(line, S_part_marker)
    THEN <<UserLeft(parse_irc_user(line))>>
    ELSE <<>>

\* ws.rs:196-206: the events a trimmed line that is no PING makes the read
\* task send.
LineEvents(line) ==
    IF contains(line, S_join_marker)
    THEN (IF parse_irc_user(line) # <<>>
          THEN <<UserJoined(parse_irc_user(line))>> ELSE <<>>)
    ELSE IF contains(line, S_part_marker)
    THEN (IF parse_irc_user(line) # <<>>
          THEN <<UserLeft(parse_irc_user(line))>> ELSE <<>>)
    ELSE <<>>

\* The history record of one line: what was read, what was emitted, what
\* was written to the socket, and whether the write of the PONG failed.
LineRecord(raw, events, sent, pong_failed) ==
    [raw |-> raw, line |-> trim(raw), events |-> events, sent |-> sent,
     pong_failed |-> pong_failed]

\* ws.rs:183-206: the body of the loop over the lines of a frame, for one
\* line; pong_ok tells whether write.send succeeds.
LineStep(raw, pong_ok) ==
    LET line == trim(raw) IN
        IF line = <<>> THEN LineRecord(raw, <<>>, <<>>, FALSE)
        ELSE IF starts_with(line, S_PING)
        THEN (IF pong_ok
              THEN LineRecord(raw, <<>>, <<PongReply(line)>>, FALSE)
              ELSE LineRecord(raw, <<>>, <<>>, TRUE))
        ELSE LineRecord(raw, LineEvents(line), <<>>, FALSE)

\* ws.rs:190-192: a failed PONG leaves the loop over the lines of the frame.
AfterPongFailure(failed) == failed

\* A loop over the lines of a frame that an empty line ends (a faulty
\* variant of ProcessLines).
RECURSIVE ProcessLinesStoppingAtEmpty(_, _, _)
ProcessLinesStoppingAtEmpty(ls, i, fail) ==
    IF i > Len(ls) THEN <<>>
    ELSE LET r == LineStep(ls[i], i # fail) IN
        <<r>> \o (IF r.pong_failed \/ r.line = <<>> THEN <<>>
                  ELSE ProcessLinesStoppingAtEmpty(ls, i + 1, fail))

\* ws.rs:182-207: the loop over the lines of one frame, from line i on; the
\* write of a PONG fails at line `fail` (0: no write fails).
RECURSIVE ProcessLines(_, _, _)
ProcessLines(ls, i, fail) ==
    IF i > Len(ls) THEN <<>>
    ELSE LET r == LineStep(ls[i], i # fail) IN
        <<r>> \o (IF AfterPongFailure(r.pong_failed) THEN <<>>
                  ELSE ProcessLines(ls, i + 1, fail))

RECURSIVE Flatten(_)
Flatten(ss) == IF ss = <<>> THEN <<>> ELSE Head(ss) \o Flatten(Tail(ss))

\* One item of the IRC stream: a text frame, a close frame, a read error or
\* another frame.
IrcFrame(kind, text) == [kind |-> kind, text |-> text]

L_join ==
    <<":", "a", "l", "!", "a", " ", "J", "O", "I", "N", " ", "#", "c">>
L_part ==
    <<":", "a", "l", "!", "a", " ", "P", "A", "R", "T", " ", "#", "c">>
L_no_colon ==
    <<"a", "l", "!", "a", " ", "J", "O", "I", "N", " ", "#", "c">>
L_no_bang ==
    <<":", "a", "l", " ", "J", "O", "I", "N", " ", "#", "c">>
L_empty_user ==
    <<":", "!", "a", " ", "J", "O", "I", "N", " ", "#", "c">>
L_part_join ==
    <<":", "a", "l", "!", "a", " ", "P", "A", "R", "T", " ", "#", "c", " ",
      "J", "O", "I", "N", " ", "#", "d">>
L_privmsg ==
    <<":", "a", "l", "!", "a", " ", "P", "R", "I", "V", "M", "S", "G", " ",
      "#", "c", " ", ":", "h", "i">>
L_ping ==
    <<"P", "I", "N", "G", " ", ":", "t", "m", "i">>
L_ping_ping ==
    <<"P", "I", "N", "G", " ", ":", "P", "I", "N", "G">>
L_empty_bad_part ==
    <<"\n", ":", "a", "l", " ", "J", "O", "I", "N", " ", "#", "c", "\n",
      ":", "a", "l", "!", "a", " ", "P", "A", "R", "T", " ", "#", "c">>
L_ping_then_join ==
    <<"P", "I", "N", "G", " ", ":", "t", "\r", "\n", ":", "a", "l", "!",
      "a", " ", "J", "O", "I", "N", " ", "#", "c", "\r", "\n">>

IrcTexts ==
    {L_join, L_part, L_no_colon, L_no_bang, L_empty_user, L_part_join,
     L_privmsg, L_ping, L_ping_ping,
     L_ping_then_join, L_empty_bad_part}

IrcFrames ==
    {IrcFrame("text", t) : t \in IrcTexts}
        \cup {IrcFrame("close", <<>>), IrcFrame("error", <<>>),
              IrcFrame("other", <<>>)}

\* The commands of the login, as the words they are formatted from
\* (ws.rs:164-174).
CapsCmd == <<"CAP REQ :twitch.tv/membership twitch.tv/tags twitch.tv/commands">>
PassCmd(token) == <<"PASS oauth:", token>>
NickCmd == <<"NICK infobot">>
JoinCmd(channel) == <<"JOIN #", channel>>

\* ws.rs:164-174: the command sent at each position of the login.
LoginCmd(pc) ==
    CASE pc = "caps" -> CapsCmd
      [] pc = "pass" -> PassCmd(oauth_token)
      [] pc = "nick" -> NickCmd
      [] pc = "join" -> JoinCmd(irc_channel)

\* A login that goes on after a failed send (a faulty variant of
\* AfterLoginSend).
AfterLoginSendIgnoringFailure(pc, ok) ==
    CASE pc = "caps" -> "pass"
      [] pc = "pass" -> "nick"
      [] pc = "nick" -> "join"
      [] pc = "join" -> "reading"

\* ws.rs:166-178: write.send(..).await? returns the error; after the fourth
\* send the read task is spawned.
AfterLoginSend(pc, ok) ==
    IF ~ok THEN "failed" ELSE AfterLoginSendIgnoringFailure(pc, ok)

\* connect_irc_ws is called (main.rs:312).
IrcInit ==
    /\ irc_pc = "idle"
    /\ irc_channel = None
    /\ irc_sent = <<>>
    /\ irc_log = <<>>
    /\ irc_read = 0
    /\ irc_frames = <<>>

\* ws.rs:150-162: the handshake, then the token and the channel name are
\* taken from the configuration; each can fail and return the error.
IrcConnect(ok, channel) ==
    /\ irc_pc = "idle"
    /\ irc_channel' = channel
    /\ irc_pc' = IF ok /\ oauth_token # None /\ channel # None
                 THEN "caps" ELSE "failed"
    /\ UNCHANGED <<irc_sent, irc_log, irc_read, irc_frames>>
    /\ UNCHANGED <<mainVars, authVars, esVars, assetVars, busVars>>

\* ws.rs:164-178: one send of the login.  After the JOIN the client reports
\* the connection and spawns the read task.
IrcLoginSend(ok) ==
    /\ irc_pc \in {"caps", "pass", "nick", "join"}
    /\ irc_sent' = IF ok THEN Append(irc_sent, LoginCmd(irc_pc)) ELSE irc_sent
    /\ irc_pc' = AfterLoginSend(irc_pc, ok)
    /\ event_queue' = IF irc_pc' = "reading"
                      THEN Append(event_queue, InfoEvent(S_irc_connected))
                      ELSE event_queue
    /\ UNCHANGED <<irc_channel, irc_log, irc_read, irc_frames>>
    /\ UNCHANGED <<mainVars, authVars, esOwn, assetVars, busVars>>

\* ws.rs:179-213: the read task processes the next item of the stream.
IrcRead(f, fail) ==
    /\ irc_pc = "reading"
    /\ irc_read < MaxIrcFrames
    /\ irc_read' = irc_read + 1
    /\ irc_frames' = IF f.kind = "text" THEN Append(irc_frames, f.text)
                     ELSE irc_frames
    /\ IF f.kind = "text"
       THEN LET log == ProcessLines(lines(f.text), 1, fail) IN
            /\ irc_log' = irc_log \o log
            /\ event_queue' =
                   event_queue \o Flatten([i \in 1..Len(log) |-> log[i].events])
            /\ irc_sent' =
                   irc_sent \o Flatten([i \in 1..Len(log) |-> log[i].sent])
            /\ irc_pc' = "reading"
       ELSE /\ irc_pc' = IF f.kind \in {"close", "error"} THEN "ended"
                         ELSE "reading"
            /\ UNCHANGED <<irc_log, event_queue, irc_sent>>
    /\ UNCHANGED irc_channel
    /\ UNCHANGED <<mainVars, authVars, esOwn, assetVars, busVars>>

\* ws.rs:179, 214: the stream ends and the read task returns.
IrcStreamEnds ==
    /\ irc_pc = "reading"
    /\ irc_pc' = "ended"
    /\ UNCHANGED <<irc_channel, irc_sent, irc_log, irc_read, irc_frames>>
    /\ UNCHANGED <<mainVars, authVars, esVars, assetVars, busVars>>

IrcNext ==
    \/ \E ok \in BOOLEAN : \E channel \in {None, "mychan"} :
          IrcConnect(ok, channel)
    \/ \E ok \in BOOLEAN : IrcLoginSend(ok)
    \/ \E f \in IrcFrames : \E fail \in 0..MaxLines : IrcRead(f, fail)
    \/ IrcStreamEnds

\* The IRC client is connected and reading: the state of its variables in
\* the specifications of the main loop.
IrcOver ==
    /\ irc_pc = "reading"
    /\ irc_channel = "mychan"
    /\ irc_sent = <<CapsCmd, PassCmd("tokC"), NickCmd, JoinCmd("mychan")>>
    /\ irc_log = <<>>
    /\ irc_read = 0
    /\ irc_frames = <<>>

----------------------------------------------------------------------------
(* The Asset Pipeline (main.rs:247-291).                                   *)

\* The interest list, in its order.
EMOJIS == << <<"Kappa">>, <<"PogChamp">> >>

EmojiNames == {EMOJIS[i] : i \in 1..Len(EMOJIS)}

\* What a file or a download holds: an image that decodes, or bytes that do
\* not.
Contents == {"png", "junk"}

\* main.rs:282
EmoteImage(name, img) == [type |-> "EmoteImage", user |-> name, text |-> <<img>>]

S_map_fetched == <<"Global emote map fetched.">>
S_fetch_failed == <<"Failed to fetch emotes">>

\* A decoder that accepts any bytes (a faulty variant of Decodes).
DecodesAnything(bytes) == TRUE

\* main.rs:281: image::load_from_memory succeeds.
Decodes(bytes) == bytes = "png"

\* A pipeline that downloads whatever the map names (a faulty variant of
\* NeedsDownload).
NeedsDownloadAlways(on_disk, in_map) == in_map

\* main.rs:261-266: an item is downloaded when its file does not exist and
\* the map has a URL for it.
NeedsDownload(on_disk, in_map) == ~on_disk /\ in_map

\* main.rs:257-284: one item.  `file` is the content of its file ("absent"
\* when there is none), read_ok the outcome of fs::read, dl the outcome of
\* download_emote ("err" or the bytes), write_ok the outcome of fs::write.
ItemResult(file, in_map, read_ok, dl, write_ok) ==
    LET on_disk == file # "absent"
        downloads == NeedsDownload(on_disk, in_map)
        img_data == IF on_disk /\ ~downloads
                    THEN (IF read_ok THEN file ELSE "none")
                    ELSE IF downloads THEN (IF dl # "err" THEN dl ELSE "none")
                    ELSE "none"
    IN [on_disk |-> on_disk,
        read_ok |-> on_disk /\ ~downloads /\ read_ok,
        downloaded |-> downloads,
        persisted |-> downloads /\ dl # "err" /\ write_ok,
        file_after |-> IF downloads /\ dl # "err" /\ write_ok THEN dl ELSE file,
        emitted |-> img_data # "none" /\ Decodes(img_data),
        img |-> img_data]

\* The pipeline has not run; the assets directory holds what earlier
\* processes left.
AssetInit ==
    /\ asset_pc = "idle"
    /\ asset_idx = 1
    /\ asset_map = {}
    /\ disk \in [EmojiNames -> Contents \cup {"absent"}]
    /\ asset_runs = <<>>
    /\ asset_log = <<>>

\* main.rs:247-255, 287-289: the task starts (once per process) and fetches
\* the name -> URL map; a failure is reported and ends the task.
AssetStart(map_ok, map) ==
    /\ asset_pc \in {"idle", "done"}
    /\ Len(asset_runs) < MaxRuns
    /\ asset_runs' = Append(asset_runs, [map_ok |-> map_ok])
    /\ asset_pc' = IF map_ok THEN "items" ELSE "done"
    /\ asset_idx' = 1
    /\ asset_map' = IF map_ok THEN map ELSE {}
    /\ event_queue' = Append(event_queue,
           IF map_ok THEN InfoEvent(S_map_fetched) ELSE ErrorEvent(S_fetch_failed))
    /\ UNCHANGED <<disk, asset_log>>
    /\ UNCHANGED <<mainVars, authVars, esOwn, ircVars, busVars>>

\* main.rs:257-285: the next item of the list.
AssetItem(read_ok, dl, write_ok) ==
    /\ asset_pc = "items"
    /\ LET name == EMOJIS[asset_idx]
           r == ItemResult(disk[name], name \in asset_map, read_ok, dl, write_ok)
       IN /\ disk' = [disk EXCEPT ![name] = r.file_after]
          /\ asset_log' = Append(asset_log,
                 [run |-> Len(asset_runs), name |-> name, file |-> disk[name],
                  on_disk |-> r.on_disk, read_ok |-> r.read_ok,
                  downloaded |-> r.downloaded, persisted |-> r.persisted,
                  dl |-> IF r.downloaded THEN dl ELSE "none",
                  emitted |-> r.emitted])
          /\ event_queue' = IF r.emitted
                            THEN Append(event_queue, EmoteImage(name, r.img))
                            ELSE event_queue
    /\ asset_idx' = IF asset_idx < Len(EMOJIS) THEN asset_idx + 1 ELSE 1
    /\ asset_pc' = IF asset_idx < Len(EMOJIS) THEN "items" ELSE "done"
    /\ UNCHANGED <<asset_map, asset_runs>>
    /\ UNCHANGED <<mainVars, authVars, esOwn, ircVars, busVars>>

AssetNext ==
    \/ \E map_ok \in BOOLEAN : \E map \in SUBSET EmojiNames :
          AssetStart(map_ok, map)
    \/ \E read_ok \in BOOLEAN : \E dl \in Contents \cup {"err"} :
          \E write_ok \in BOOLEAN : AssetItem(read_ok, dl, write_ok)

\* The pipeline is not looked at: the state of its variables in the other
\* specifications.
AssetIdle ==
    /\ asset_pc = "idle"
    /\ asset_idx = 1
    /\ asset_map = {}
    /\ disk = [n \in EmojiNames |-> "absent"]
    /\ asset_runs = <<>>
    /\ asset_log = <<>>

----------------------------------------------------------------------------
(* The broadcast Event Bus: tokio::sync::broadcast, created at main.rs:35, *)
(* fed by the main loop (main.rs:341) and read by the overlay              *)
(* (gui.rs:134-149).                                                       *)

\* What recv() returns besides an event.
Lagged == [type |-> "Lagged", user |-> <<>>, text |-> <<>>]
Closed == [type |-> "Closed", user |-> <<>>, text |-> <<>>]

\* broadcast::Sender::send: the channel keeps the newest Capacity events.
Retain(buf, evt) ==
    LET all == Append(buf, evt) IN
        IF Len(all) > Capacity
        THEN SubSeq(all, Len(all) - Capacity + 1, Len(all)) ELSE all

\* The number of sent events that are no longer retained.
Oldest == bus_sent - Len(bus_buf)

\* broadcast::Receiver::recv has something to return: a lag, an event, or
\* the end of a closed channel.
RecvReady == sub_pos < bus_sent \/ bus_closed

\* broadcast::Receiver::recv: Lagged when the next event of the receiver is
\* no longer retained, the next event when there is one, Closed when every
\* sender is gone and nothing is left.
RecvResult ==
    IF sub_pos < Oldest THEN Lagged
    ELSE IF sub_pos < bus_sent THEN bus_buf[sub_pos - Oldest + 1]
    ELSE Closed

\* A receive loop that gives up when it has lagged (a faulty variant of
\* SubscriberAfter).
SubscriberAfterLagEnds(result) ==
    IF result.type \in {"Lagged", "Closed"} THEN "ended" ELSE "receiving"

\* gui.rs:137-147: Ok forwards the event and loops, Lagged loops, Closed
\* leaves the loop.
SubscriberAfter(result) ==
    IF result.type = "Closed" THEN "ended" ELSE "receiving"

\* main.rs:35, 57: the channel is created and the overlay subscribes.
BusInit ==
    /\ bus_buf = <<>>
    /\ bus_sent = 0
    /\ bus_closed = FALSE
    /\ sub_pos = 0
    /\ sub_state = "receiving"
    /\ sub_got = <<>>
    /\ bus_log = <<>>

\* The broadcast Event Bus with a sender that leaves an event out when the
\* subscriber has not yet read the oldest retained one (a faulty variant of
\* BusSend).
BusSendIfRoom(evt) ==
    IF Len(bus_buf) = Capacity /\ sub_pos <= Oldest
    THEN UNCHANGED busVars
    ELSE /\ bus_buf' = Retain(bus_buf, evt)
         /\ bus_sent' = bus_sent + 1
         /\ bus_log' = Append(bus_log, evt)
         /\ UNCHANGED <<bus_closed, sub_pos, sub_state, sub_got>>

\* main.rs:341: `let _ = broadcast_tx.send(evt.clone())`; it does not wait
\* for any receiver.
BusSend(evt) ==
    /\ bus_buf' = Retain(bus_buf, evt)
    /\ bus_sent' = bus_sent + 1
    /\ bus_log' = Append(bus_log, evt)
    /\ UNCHANGED <<bus_closed, sub_pos, sub_state, sub_got>>

\* gui.rs:136-148: one iteration of the overlay's receive loop.
SubRecv ==
    /\ sub_state = "receiving"
    /\ RecvReady
    /\ sub_got' = Append(sub_got, RecvResult)
    /\ sub_pos' = IF RecvResult.type = "Lagged" THEN Oldest
                  ELSE IF RecvResult.type = "Closed" THEN sub_pos
                  ELSE sub_pos + 1
    /\ sub_state' = SubscriberAfter(RecvResult)
    /\ UNCHANGED <<bus_buf, bus_sent, bus_closed, bus_log>>
    /\ UNCHANGED <<mainVars, authVars, esVars, ircVars, assetVars>>

\* run_bot has returned and main has dropped its sender: the channel is
\* closed.
BusClose ==
    /\ ~bus_closed
    /\ bus_closed' = TRUE
    /\ UNCHANGED <<bus_buf, bus_sent, sub_pos, sub_state, sub_got, bus_log>>
    /\ UNCHANGED <<mainVars, authVars, esVars, ircVars, assetVars>>

----------------------------------------------------------------------------
(* The main loop: Init is the state at main.rs:332, the loop entered.       *)

MainStart ==
    /\ now = StartTime
    /\ last_ai_reply = StartTime - 10 * OneSec
    /\ processed = <<>>
    /\ tasks = <<>>
    /\ chat_out = {}

\* Time passes.
Tick ==
    /\ now < StartTime + MaxTicks
    /\ now' = now + 1
    /\ UNCHANGED <<last_ai_reply, processed, tasks, chat_out>>
    /\ UNCHANGED <<authVars, esVars, ircVars, assetVars, busVars>>

\* What the ChatMessage arm decides (main.rs:354-404) for a message read at
\* clock value t: whether the trigger is accepted, and whether a task is
\* spawned for it.
ChatAccepted(user, text, t, last) ==
    /\ ~IsOwnMessage(user)
    /\ is_trigger(text)
    /\ RateLimitAllows(t, last)

\* A dispatch that does not look at the prompt (a faulty variant of
\* ChatDispatches).
ChatDispatchesEmptyPrompt(user, text, t, last) ==
    ChatAccepted(user, text, t, last)

\* main.rs:374-385: a task is spawned when the message is accepted and its
\* prompt is not empty.
ChatDispatches(user, text, t, last) ==
    ChatAccepted(user, text, t, last) /\ PromptOf(text) # <<>>

\* A greeting that is subject to the rate limit of the chat replies (a
\* faulty variant of JoinDispatches).
JoinDispatchesRateLimited(t, last) == RateLimitAllows(t, last)

\* main.rs:406-418: the UserJoined arm reaches tokio::spawn under no
\* condition; it reads neither the clock nor last_ai_reply.
JoinDispatches(t, last) == TRUE

\* main.rs:377: the timestamp written on acceptance is a second clock read,
\* `skew` ticks after the one elapsed() made.
NewLastReply(t, skew) == t + skew

\* The history record of one received event.
Processed(evt, t, accepted, dispatched) ==
    [evt |-> evt, at |-> t, accepted |-> accepted, dispatched |-> dispatched]

\* main.rs:339-449: what one iteration of the loop does with the event evt
\* that rx.recv() yielded.
HandleEvent(evt) ==
    /\ Len(processed) < MaxEvents
    /\ LET idx == Len(processed) + 1 IN
        IF evt.type = "ChatMessage"
        THEN IF ChatAccepted(evt.user, evt.text, now, last_ai_reply)
             THEN \E skew \in 0..MaxSkew :
                    /\ last_ai_reply' = NewLastReply(now, skew)
                    /\ now' = now + skew
                    /\ processed' = Append(processed,
                           Processed(evt, now, TRUE,
                               ChatDispatches(evt.user, evt.text, now, last_ai_reply)))
                    /\ tasks' =
                         IF ChatDispatches(evt.user, evt.text, now, last_ai_reply)
                         THEN Append(tasks, Task(idx, "chat", evt.user,
                                  ChatPromptString(evt.user, PromptOf(evt.text))))
                         ELSE tasks
             ELSE /\ processed' = Append(processed, Processed(evt, now, FALSE, FALSE))
                  /\ UNCHANGED <<now, last_ai_reply, tasks>>
        ELSE IF evt.type = "UserJoined"
        THEN /\ processed' = Append(processed,
                    Processed(evt, now, FALSE, JoinDispatches(now, last_ai_reply)))
             /\ tasks' = IF JoinDispatches(now, last_ai_reply)
                         THEN Append(tasks, Task(idx, "greeting", evt.user,
                                                 JoinPromptString(evt.user)))
                         ELSE tasks
             /\ UNCHANGED <<now, last_ai_reply>>
        ELSE /\ processed' = Append(processed, Processed(evt, now, FALSE, FALSE))
             /\ UNCHANGED <<now, last_ai_reply, tasks>>
    /\ UNCHANGED chat_out

\* main.rs:339-449: one iteration of the loop, rx.recv() yielding evt.
RecvEvent(evt) ==
    /\ BusSend(evt)
    /\ HandleEvent(evt)
    /\ UNCHANGED <<authVars, esVars, ircVars, assetVars>>

\* A task whose failed ask_ai reopens the rate limit window of the main loop
\* (a faulty variant of AiReturns).
AiReturnsResettingLimit(i, ok) ==
    /\ i \in 1..Len(tasks)
    /\ tasks[i].stage = "ask_ai"
    /\ IF ok
       THEN /\ tasks' = [tasks EXCEPT ![i].stage = "send_chat"]
            /\ chat_out' = chat_out \cup
                   {[task |-> i, message |-> FullReply(tasks[i].user, AiReply)]}
            /\ UNCHANGED last_ai_reply
       ELSE /\ tasks' = [tasks EXCEPT ![i].stage = "done"]
            /\ last_ai_reply' = StartTime - 10 * OneSec
            /\ UNCHANGED chat_out
    /\ UNCHANGED <<now, processed>>
    /\ UNCHANGED <<authVars, esVars, ircVars, assetVars, busVars>>

\* main.rs:392-400, 420-428: ask_ai returns in task i.  On Ok the task goes
\* on to call send_chat_message with the mention-prefixed reply; on Err it
\* ends.
AiReturns(i, ok) ==
    /\ i \in 1..Len(tasks)
    /\ tasks[i].stage = "ask_ai"
    /\ IF ok
       THEN /\ tasks' = [tasks EXCEPT ![i].stage = "send_chat"]
            /\ chat_out' = chat_out \cup
                   {[task |-> i, message |-> FullReply(tasks[i].user, AiReply)]}
       ELSE /\ tasks' = [tasks EXCEPT ![i].stage = "done"]
            /\ UNCHANGED chat_out
    /\ UNCHANGED <<now, last_ai_reply, processed>>
    /\ UNCHANGED <<authVars, esVars, ircVars, assetVars, busVars>>

\* A task that restarts the rate limit window when its reply has been sent
\* (a faulty variant of ChatSendReturns).
ChatSendReturnsStamping(i) ==
    /\ i \in 1..Len(tasks)
    /\ tasks[i].stage = "send_chat"
    /\ tasks' = [tasks EXCEPT ![i].stage = "done"]
    /\ last_ai_reply' = now
    /\ UNCHANGED <<now, processed, chat_out>>
    /\ UNCHANGED <<authVars, esVars, ircVars, assetVars, busVars>>

\* main.rs:395, 423: send_chat_message returns; its result is dropped.
ChatSendReturns(i) ==
    /\ i \in 1..Len(tasks)
    /\ tasks[i].stage = "send_chat"
    /\ tasks' = [tasks EXCEPT ![i].stage = "done"]
    /\ UNCHANGED <<now, last_ai_reply, processed, chat_out>>
    /\ UNCHANGED <<authVars, esVars, ircVars, assetVars, busVars>>

\* The main loop alone: the tasks it spawns are recorded, their bodies run
\* elsewhere.
MainNext ==
    \/ Tick
    \/ \E evt \in ProducerEvents : RecvEvent(evt)

MainInit == MainStart /\ AuthOver /\ EsOver /\ IrcOver /\ AssetIdle /\ BusInit

Spec == MainInit /\ [][MainNext]_vars

\* The main loop together with the dispatch tasks it spawned.
DispatchNext ==
    \/ Tick
    \/ \E evt \in ProducerEvents :
          Len(processed) < MaxDispatchEvents /\ RecvEvent(evt)
    \/ \E i \in 1..MaxDispatchEvents : \E ok \in BOOLEAN : AiReturns(i, ok)
    \/ \E i \in 1..MaxDispatchEvents : ChatSendReturns(i)

SpecDispatch == MainInit /\ [][DispatchNext]_vars

\* The startup authentication of run_bot, before the main loop exists.
MainIdle ==
    /\ now = StartTime
    /\ last_ai_reply = StartTime - 10 * OneSec
    /\ processed = <<>>
    /\ tasks = <<>>
    /\ chat_out = {}

\* run_bot enters the 'auth block: nothing else has run yet.
InitAuth == AuthInit /\ MainIdle /\ EsInit /\ IrcInit /\ AssetIdle /\ BusInit

SpecAuth == InitAuth /\ [][AuthNext]_vars

\* Every request and every sleep of the startup completes (tokio drives the
\* one future of main to its next await point).
SpecAuthLive == InitAuth /\ [][AuthNext]_vars /\ WF_vars(AuthNext)

\* run_bot from connect_eventsub_ws to the start of the main loop, with the
\* EventSub read task.
\* run_bot calls connect_eventsub_ws: authentication is over.
InitEventSub == AuthOver /\ MainIdle /\ EsInit /\ IrcInit /\ AssetIdle /\ BusInit

SpecEventSub == InitEventSub /\ [][EsNext]_vars

\* subscribe_to_chat_messages under every input.
SubscribeNext ==
    \E sid \in SessionIds : \E token \in {None, "tokC"} :
        \E resp \in SubscribeResponses : CallSubscribe(sid, token, resp)

\* A main loop that takes the newest event of its channel and discards the
\* older ones (a faulty variant of RecvQueued).
RecvNewest ==
    /\ event_queue # <<>>
    /\ BusSend(Last(event_queue))
    /\ HandleEvent(Last(event_queue))
    /\ event_queue' = <<>>
    /\ UNCHANGED <<es_pc, es_task, session_id, es_result, es_frames, read_at,
                   sub_requests, sub_calls>>
    /\ UNCHANGED <<authVars, ircVars, assetVars>>

\* main.rs:339-449: one iteration of the loop, rx.recv() yielding the event
\* at the head of the channel.
RecvQueued ==
    /\ event_queue # <<>>
    /\ BusSend(Head(event_queue))
    /\ HandleEvent(Head(event_queue))
    /\ event_queue' = Tail(event_queue)
    /\ UNCHANGED <<es_pc, es_task, session_id, es_result, es_frames, read_at,
                   sub_requests, sub_calls>>
    /\ UNCHANGED <<authVars, ircVars, assetVars>>

\* The frames of an EventSub connection after its welcome.
EndToEndFrames ==
    {Notification(EventJson(TRUE, u, TRUE, t)) :
        u \in Users, t \in NotificationTexts}
        \cup {Notification(EventJson(TRUE, U_bob, FALSE, <<>>)),
              TextFrame("session_keepalive", EmptyPayload),
              Frame("close", FALSE, "", EmptyPayload)}

\* The EventSub read task feeding the main loop through the channel.
EndToEndNext ==
    \/ Tick
    \/ \E f \in EndToEndFrames : EsFrame(f)
    \/ RecvQueued

SpecEndToEnd == MainInit /\ [][EndToEndNext]_vars

\* No call has been made yet.
InitSubscribe == AuthOver /\ MainIdle /\ EsInit /\ IrcInit /\ AssetIdle /\ BusInit

\* connect_irc_ws and its read task on their own.
InitIrc == AuthOver /\ MainIdle /\ EsInit /\ IrcInit /\ AssetIdle /\ BusInit

SpecIrc == InitIrc /\ [][IrcNext]_vars

\* The Asset Pipeline on its own, run again over the same directory.
InitAsset == AuthOver /\ MainIdle /\ EsInit /\ IrcInit /\ AssetInit /\ BusInit

SpecAsset == InitAsset /\ [][AssetNext]_vars

\* The events the main loop receives while the overlay is subscribed.
BusEvents == {ChatMessage(U_bob, T_ok), UserJoined(U_bob), UserLeft(U_bob)}

\* The main loop feeding the broadcast channel and the overlay reading it.
BusNext ==
    \/ \E evt \in BusEvents : ~bus_closed /\ RecvEvent(evt)
    \/ SubRecv
    \/ BusClose

SpecBus == MainInit /\ [][BusNext]_vars

SpecSubscribe == InitSubscribe /\ [][SubscribeNext]_vars

----------------------------------------------------------------------------
(* Claims about the Reaction Engine.                                       *)

\* The received event i is a ChatMessage of another user than the bot whose
\* text satisfies the trigger predicate.
TriggerEligible(i) ==
    /\ processed[i].evt.type = "ChatMessage"
    /\ ~eq_ignore_ascii_case(processed[i].evt.user, BotLogin)
    /\ is_trigger(processed[i].evt.text)

\* A chat-reply task was spawned for the received event i.
ReplySpawned(i) ==
    \E k \in 1..Len(tasks) : tasks[k].src = i /\ tasks[k].kind = "chat"

\* Events i and j were processed less than one second apart.
WithinOneSec(i, j) == processed[j].at - processed[i].at < OneSec

\* C1 as stated: of two trigger-eligible messages of other users processed
\* less than 1 second apart, the later one is dropped (so at most one reply
\* is dispatched).  Fails: the earlier one may itself have been dropped by
\* the rate limit, and then the later one can be accepted.
C1_LaterAlwaysDropped ==
    \A i, j \in 1..Len(processed) :
        (i < j /\ TriggerEligible(i) /\ TriggerEligible(j) /\ WithinOneSec(i, j))
            => ~ReplySpawned(j)

\* C1 (amended): for any two trigger-eligible ChatMessage events of non-bot
\* users processed less than 1 second apart, at most one AI-reply dispatch
\* is spawned; when the earlier one was accepted the later one is dropped;
\* and a task exists only for a message that was accepted when it was
\* processed, in processing order (a dropped message is never dispatched
\* afterwards: no queue, no backlog).
C1_RateLimit ==
    /\ \A i, j \in 1..Len(processed) :
        (i < j /\ TriggerEligible(i) /\ TriggerEligible(j) /\ WithinOneSec(i, j))
            => /\ ~(ReplySpawned(i) /\ ReplySpawned(j))
               /\ processed[i].accepted
                    => (~processed[j].accepted /\ ~ReplySpawned(j))
    /\ \A k \in 1..Len(tasks) :
        /\ tasks[k].kind = "chat" => processed[tasks[k].src].accepted
        /\ processed[tasks[k].src].dispatched
        /\ \A m \in 1..Len(tasks) : k < m => tasks[k].src < tasks[m].src

\* C1 witness: two trigger-eligible messages less than 1 second apart, the
\* first dispatched and the second dropped, and a third one dispatched later.
C1_Witness ==
    /\ Len(processed) = 3
    /\ TriggerEligible(1) /\ TriggerEligible(2) /\ TriggerEligible(3)
    /\ WithinOneSec(1, 2)
    /\ ReplySpawned(1) /\ ~ReplySpawned(2) /\ ReplySpawned(3)

\* A message was handed to send_chat_message by a task of the received
\* event i.
ReplySent(i) ==
    \E c \in chat_out : tasks[c.task].src = i

\* C2: for every ChatMessage whose user equals the bot's login ignoring
\* (ASCII) case, no dispatch task is spawned and no chat reply is sent,
\* whatever the text and the rate-limit state.
C2_NoSelfReply ==
    \A i \in 1..Len(processed) :
        (/\ processed[i].evt.type = "ChatMessage"
         /\ AsciiLowercase(processed[i].evt.user) = AsciiLowercase(BotLogin))
            => /\ \A k \in 1..Len(tasks) : tasks[k].src # i
               /\ ~ReplySent(i)
               /\ ~processed[i].accepted

\* C2 witness: the bot's own message (in another case), with a triggering
\* text, was processed while the rate limit allowed a reply, and a reply to
\* another user's message has been sent since.
C2_Witness ==
    /\ Len(processed) = 2
    /\ processed[1].evt = ChatMessage(U_BoT, T_hey)
    /\ RateLimitAllows(processed[1].at, StartTime - 10 * OneSec)
    /\ processed[2].evt.user = U_bob
    /\ ReplySent(2)

----------------------------------------------------------------------------
(* Claims about the startup authentication and the token cache.            *)

StepsOf(name) == {i \in 1..Len(auth_trace) : auth_trace[i].step = name}

\* The cached credential was validated and the validation did not succeed.
ValidationFailed ==
    \E i \in StepsOf("validate") : auth_trace[i].outcome # "valid"

\* C3: whenever the cached credential fails validation and carries a
\* refresh token, exactly one refresh is attempted, and the device flow is
\* started only after that refresh attempt has failed.
C3_OneRefreshBeforeDevice ==
    /\ Cardinality(StepsOf("refresh")) <= 1
    /\ (ValidationFailed /\ cached.refresh_token # None)
        => /\ auth_pc # "refresh" => Cardinality(StepsOf("refresh")) = 1
           /\ \A d \in StepsOf("device") :
                \E r \in StepsOf("refresh") :
                    r < d /\ auth_trace[r].outcome = "err"

\* C3 witness: validation failed, the credential had a refresh token, the
\* one refresh failed and the device flow was started.
C3_Witness ==
    /\ ValidationFailed
    /\ cached.refresh_token # None
    /\ Cardinality(StepsOf("refresh")) = 1
    /\ StepsOf("device") # {}

StepRank(name) ==
    CASE name = "load" -> 1
      [] name = "validate" -> 2
      [] name = "refresh" -> 3
      [] name = "device" -> 4
      [] OTHER -> 5

\* Step i ended one of the three paths with an access token.
PathSucceeded(i) ==
    \/ auth_trace[i].step = "validate" /\ auth_trace[i].outcome = "valid"
    \/ auth_trace[i].step = "refresh" /\ auth_trace[i].outcome = "ok"
    \/ auth_trace[i].step = "device_end" /\ auth_trace[i].outcome = "ok"

\* C4: the cached credential (validate), then refresh, then the device flow
\* are tried in that order; a later step is attempted only when every
\* earlier one failed or was unavailable (no usable cache record, no refresh
\* token); run_bot goes past authentication only with the access token one
\* of the three paths obtained; and startup is aborted exactly when the
\* device flow failed.
C4_FallbackChain ==
    /\ \A i, j \in 1..Len(auth_trace) :
        i < j => /\ StepRank(auth_trace[i].step) < StepRank(auth_trace[j].step)
                 /\ ~PathSucceeded(i)
    /\ \A i \in StepsOf("validate") : auth_trace[1] = Step("load", "ok", None)
    /\ \A i \in StepsOf("refresh") :
        ValidationFailed /\ cached.refresh_token # None
    /\ \A i \in StepsOf("device") :
        \/ auth_trace[1] = Step("load", "err", None)
        \/ ValidationFailed /\ cached.refresh_token = None
        \/ \E r \in StepsOf("refresh") : auth_trace[r].outcome = "err"
    /\ auth_pc = "authenticated" =>
        /\ oauth_token # None
        /\ \/ /\ Last(auth_trace) = Step("validate", "valid", None)
              /\ oauth_token = cached.access_token
           \/ Last(auth_trace) = Step("refresh", "ok", oauth_token)
           \/ /\ Last(auth_trace) = Step("device_end", "ok", oauth_token)
              /\ dev_grant.granted /\ dev_grant.access_token = oauth_token
    /\ auth_pc # "authenticated" => oauth_token = None
    /\ auth_pc = "aborted" <=>
        (auth_trace # <<>> /\ Last(auth_trace).outcome = "err"
            /\ Last(auth_trace).step \in {"device", "device_end"})

\* C4 witness: the cache was loaded, validation failed, the refresh failed
\* and the device flow yielded the token run_bot goes on with.
C4_Witness ==
    /\ auth_pc = "authenticated"
    /\ Len(auth_trace) = 5
    /\ oauth_token = "tokD"

\* C5: when validating the cached token fails with a network error, the
\* token is treated as invalid (it is not the token run_bot goes on with)
\* and startup continues with the refresh, or with the device flow when
\* there is no refresh token; the error itself never aborts startup.
C5_ValidateErrorIsInvalid ==
    \A i \in StepsOf("validate") :
        auth_trace[i].outcome = "error" =>
            /\ i = Len(auth_trace) =>
                auth_pc = IF cached.refresh_token # None
                          THEN "refresh" ELSE "dev_request"
            /\ i < Len(auth_trace) =>
                auth_trace[i + 1].step =
                    IF cached.refresh_token # None THEN "refresh" ELSE "device"
            /\ \A j \in 1..Len(auth_trace) :
                auth_trace[j].outcome = "ok" /\ auth_trace[j].step # "load"
                    => oauth_token = auth_trace[j].token

\* C5 witness: validation ended with a network error and startup went on to
\* authenticate by another path.
C5_Witness ==
    /\ \E i \in StepsOf("validate") : auth_trace[i].outcome = "error"
    /\ auth_pc = "authenticated"

Tolerated(text) ==
    \/ contains(text, <<"authorization_pending">>)
    \/ contains(text, <<"slow_down">>)

\* C6: in the device flow every poll is preceded by a sleep of the same
\* fixed interval; a non-success answer reporting authorization_pending or
\* slow_down leads to another sleep of that interval (and then a poll); any
\* other non-success answer ends the flow with an error and no further
\* poll.
C6_PollLoop ==
    \A i \in 1..Len(dev_log) :
        /\ dev_log[i].op = "sleep" => dev_log[i].secs = dev_interval
        /\ dev_log[i].op = "poll" =>
            /\ i > 1
            /\ dev_log[i - 1] = SleepEntry(dev_interval)
            /\ (dev_log[i].text # <<>> /\ Tolerated(dev_log[i].text)) =>
                IF i = Len(dev_log)
                THEN auth_pc = "dev_sleep"
                ELSE dev_log[i + 1] = SleepEntry(dev_interval)
            /\ (dev_log[i].text # <<>> /\ ~Tolerated(dev_log[i].text)) =>
                /\ i = Len(dev_log)
                /\ auth_pc = "aborted"
                /\ oauth_token = None

\* C6 witness: a poll answered authorization_pending, a poll answered
\* slow_down and a poll answered with another error, each after a sleep of
\* the interval, and the flow has ended with an error.
C6_Witness ==
    /\ Len(dev_log) = 6
    /\ dev_log[2].text = E_pending
    /\ dev_log[4].text = E_slow
    /\ dev_log[6].text = E_denied
    /\ dev_interval = 6
    /\ auth_pc = "aborted"

\* C7: whenever the device flow returns a token, the token cache has been
\* written with it; and if the cache write fails the flow returns an error
\* and no token, although the provider granted one.
C7_SavedBeforeReturn ==
    /\ (auth_pc = "authenticated" /\ dev_grant.granted) =>
        /\ dev_grant.save = "ok"
        /\ cache_file.kind = "json"
        /\ cache_file.access_token = oauth_token
        /\ oauth_token = dev_grant.access_token
    /\ (dev_grant.granted /\ dev_grant.save # "ok") =>
        /\ auth_pc = "aborted"
        /\ oauth_token = None

\* C7 witness: the device flow has returned the granted token, and the
\* cache, which held no usable record before, holds it.
C7_Witness ==
    /\ auth_pc = "authenticated"
    /\ dev_grant.granted
    /\ auth_trace[1] = Step("load", "err", None)
    /\ cache_file.access_token = "tokD"

\* C8 as stated: after a successful save, load_token_cache returns the
\* credential that was saved, with the same access token and the same
\* refresh token.  Fails: the record written holds the access token only.
C8_RoundTrip ==
    last_saved.saved =>
        /\ LoadOk(cache_file)
        /\ load_token_cache(cache_file) = last_saved.cred

----------------------------------------------------------------------------
(* Claims about the EventSub client and the subscription.                  *)

\* The positions of the welcomes among the first n frames processed.
WelcomesIn(n) == {i \in 1..n : IsWelcome(es_frames[i])}

\* The id of the last welcome among the first n frames, "" when none.
LastWelcomeId(n) ==
    IF WelcomesIn(n) = {} THEN ""
    ELSE LET last == CHOOSE i \in WelcomesIn(n) :
                        \A j \in WelcomesIn(n) : j <= i
         IN es_frames[last].payload.session_id

T_CMD == <<"!", "B", "O", "T", " ", "h", "i">>
T_cmd_bare == <<"!", "b", "o", "t">>
T_cmd_padded == <<"!", "b", "o", "t", " ", " ", "h", "i", " ">>
T_cmd_only == <<"!", "b", "o", "t", " ">>
CommandTexts == {T_cmd, T_CMD, T_cmd_bare, T_cmd_padded, T_cmd_only, T_hey}

\* Chat messages handled by one run of the main loop.
MaxCommandEvents == 2

\* The main loop receiving command messages.
CommandNext ==
    \/ Tick
    \/ \E u \in Users : \E t \in CommandTexts :
          Len(processed) < MaxCommandEvents /\ RecvEvent(ChatMessage(u, t))

SpecCommand == MainInit /\ [][CommandNext]_vars

\* The text after its first four characters, the command prefix.
WithoutPrefix(text) == SubSeq(text, Len(S_bot_cmd) + 1, Len(text))

\* C13 as stated: for every accepted message whose text begins with "!bot"
\* (ignoring case), the prompt dispatched is the text with the prefix
\* removed, trimmed, and it never still begins with the prefix.
C13_PrefixStripped ==
    \A k \in 1..Len(tasks) :
        LET text == processed[tasks[k].src].evt.text
            user == processed[tasks[k].src].evt.user
        IN (tasks[k].kind = "chat" /\ starts_with(to_lowercase(text), S_bot_cmd))
            => /\ tasks[k].prompt =
                    S_User_sp \o user \o S_colon_sp \o trim(WithoutPrefix(text))
               /\ ~starts_with(to_lowercase(trim(WithoutPrefix(text))), S_bot_cmd)
               /\ ~starts_with(
                     to_lowercase(SubSeq(tasks[k].prompt,
                         Len(S_User_sp \o user \o S_colon_sp) + 1,
                         Len(tasks[k].prompt))),
                     S_bot_cmd)

----------------------------------------------------------------------------
(* Claims that follow an event from the EventSub frame to the dispatch.    *)

\* The frame is a notification whose event has a chatter_user_login and a
\* message.text.
IsChatNotification(f) ==
    /\ f.kind = "text" /\ f.is_envelope
    /\ f.message_type = "notification"
    /\ f.payload.has_event
    /\ f.payload.event.has_login /\ f.payload.event.has_text

\* C12: a notification whose event has chatter_user_login = u and
\* message.text = t makes the EventSub client emit exactly the one event
\* ChatMessage{user: u, text: t}; and when the main loop receives a
\* ChatMessage{u, t} with u not the bot, t trigger-eligible and not
\* beginning with the command prefix, while the rate limit allows it, it
\* spawns exactly one task, whose prompt is "User u: t" with t trimmed.
C12_EndToEnd ==
    [][/\ (es_frames' # es_frames /\ IsChatNotification(Last(es_frames')))
            => event_queue' = Append(event_queue,
                   [type |-> "ChatMessage",
                    user |-> Last(es_frames').payload.event.login,
                    text |-> Last(es_frames').payload.event.text])
       /\ (/\ processed' # processed
           /\ Head(event_queue).type = "ChatMessage"
           /\ ~eq_ignore_ascii_case(Head(event_queue).user, BotLogin)
           /\ is_trigger(Head(event_queue).text)
           /\ ~starts_with(to_lowercase(Head(event_queue).text), S_bot_cmd)
           /\ now - last_ai_reply >= OneSec)
            => /\ Len(tasks') = Len(tasks) + 1
               /\ Last(tasks').kind = "chat"
               /\ Last(tasks').stage = "ask_ai"
               /\ Last(tasks').prompt =
                      S_User_sp \o Head(event_queue).user \o S_colon_sp
                          \o trim(Head(event_queue).text)
      ]_vars

\* The notification of bob's "hello?" was read, its ChatMessage received and
\* the prompt "User bob: hello?" dispatched.
C12_Witness ==
    /\ \E i \in 1..Len(es_frames) :
        /\ IsChatNotification(es_frames[i])
        /\ es_frames[i].payload.event.login = U_bob
        /\ es_frames[i].payload.event.text = T_hello_q
    /\ \E k \in 1..Len(tasks) :
        /\ processed[tasks[k].src].evt = ChatMessage(U_bob, T_hello_q)
        /\ tasks[k].prompt =
              <<"U", "s", "e", "r", " ", "b", "o", "b", ":", " ",
                "h", "e", "l", "l", "o", "?">>

\* The frame is a notification whose event does not have the chat-message
\* shape.
IsMalformedNotification(f) ==
    /\ f.kind = "text" /\ f.is_envelope
    /\ f.message_type = "notification"
    /\ f.payload.has_event
    /\ ~(f.payload.event.has_login /\ f.payload.event.has_text)

\* C14: a notification whose event does not match the chat-message shape
\* makes the EventSub client emit no event and leaves its task reading; a
\* well-formed notification read after such a frame still yields its
\* ChatMessage.
C14_MalformedNotificationSwallowed ==
    [][/\ (es_frames' # es_frames /\ IsMalformedNotification(Last(es_frames')))
            => event_queue' = event_queue /\ es_task' = "running"
       /\ (/\ es_frames' # es_frames
           /\ IsChatNotification(Last(es_frames'))
           /\ \E i \in 1..Len(es_frames) : IsMalformedNotification(es_frames[i]))
            => /\ Len(event_queue') = Len(event_queue) + 1
               /\ Last(event_queue').type = "ChatMessage"
               /\ Last(event_queue').user = Last(es_frames').payload.event.login
               /\ Last(event_queue').text = Last(es_frames').payload.event.text
      ]_vars

\* A notification without message.text was read, then a well-formed one: the
\* only event emitted is the ChatMessage of the second.
C14_Witness ==
    /\ Len(es_frames) >= 2
    /\ IsMalformedNotification(es_frames[1])
    /\ IsChatNotification(es_frames[2])
    /\ event_queue = <<ChatMessage(es_frames[2].payload.event.login,
                                   es_frames[2].payload.event.text)>>
    /\ es_task = "running"

----------------------------------------------------------------------------
(* Claims about the IRC client.                                            *)

\* The position of the first '!' of the line, 0 when it has none.
FirstBang(line) ==
    IF \E k \in 1..Len(line) : line[k] = "!"
    THEN CHOOSE k \in 1..Len(line) :
            line[k] = "!" /\ \A j \in 1..(k - 1) : line[j] # "!"
    ELSE 0

\* The text between the leading ':' and the first '!'.
UserBetween(line) == SubSeq(line, 2, FirstBang(line) - 1)

\* The line starts with ':', has a '!' and a user between them.
HasSender(line) ==
    /\ line # <<>> /\ line[1] = ":"
    /\ FirstBang(line) > 0
    /\ UserBetween(line) # <<>>

HasJoinMarker(line) ==
    \E i \in 1..Len(line) :
        i + 6 <= Len(line) /\ SubSeq(line, i, i + 6) = S_join_marker

HasPartMarker(line) ==
    \E i \in 1..Len(line) :
        i + 6 <= Len(line) /\ SubSeq(line, i, i + 6) = S_part_marker

\* C15 as stated: every line yields at most one event; a line with the join
\* marker yields UserJoined{user}, a line with the part marker yields
\* UserLeft{user}; a line without a well-formed sender yields nothing.
C15_EveryMarkedLine ==
    \A n \in 1..Len(irc_log) :
        LET line == irc_log[n].line
            events == irc_log[n].events
        IN /\ Len(events) <= 1
           /\ (HasSender(line) /\ HasJoinMarker(line))
                => events = <<[type |-> "UserJoined", user |-> UserBetween(line),
                               text |-> <<>>]>>
           /\ (HasSender(line) /\ HasPartMarker(line))
                => events = <<[type |-> "UserLeft", user |-> UserBetween(line),
                               text |-> <<>>]>>
           /\ ~HasSender(line) => events = <<>>

\* C15: every line yields at most one event; a line with the join marker
\* yields UserJoined{user}, a line with the part marker and without the join
\* marker yields UserLeft{user}, user being the text between the leading
\* ':' and the first '!'; a line that does not start with ':', has no '!'
\* or has an empty user yields no event; and the read task goes on reading.
C15_IrcLineEvents ==
    /\ [](\A n \in 1..Len(irc_log) :
            LET line == irc_log[n].line
                events == irc_log[n].events
            IN /\ Len(events) <= 1
               /\ (HasSender(line) /\ HasJoinMarker(line))
                    => events = <<[type |-> "UserJoined",
                                   user |-> UserBetween(line), text |-> <<>>]>>
               /\ (HasSender(line) /\ HasPartMarker(line) /\ ~HasJoinMarker(line))
                    => events = <<[type |-> "UserLeft",
                                   user |-> UserBetween(line), text |-> <<>>]>>
               /\ ~HasSender(line) => events = <<>>)
    /\ [][irc_log' # irc_log
            => /\ irc_pc' = "reading"
               /\ event_queue' = event_queue \o
                    Flatten([n \in 1..(Len(irc_log') - Len(irc_log)) |->
                                irc_log'[Len(irc_log) + n].events])]_vars

\* A JOIN line of user "al" yielded UserJoined{al}, and after it a line with
\* a JOIN marker and an empty user yielded nothing.
C15_Witness ==
    /\ Len(irc_log) = 2
    /\ irc_log[1].line = L_join
    /\ irc_log[1].events = <<UserJoined(<<"a", "l">>)>>
    /\ irc_log[2].line = L_empty_user
    /\ irc_log[2].events = <<>>
    /\ irc_pc = "reading"
    /\ Last(event_queue) = UserJoined(<<"a", "l">>)

\* The four commands of the login, in the order of the protocol.
ExpectedLogin ==
    << <<"CAP REQ :twitch.tv/membership twitch.tv/tags twitch.tv/commands">>,
       <<"PASS oauth:", oauth_token>>,
       <<"NICK infobot">>,
       <<"JOIN #", irc_channel>> >>

\* C17: the messages sent on connect are the capability request, PASS
\* oauth:<token>, NICK and JOIN #<channel>, in that order, one after the
\* other; after a failed send nothing more is sent and the read task never
\* runs; the read task runs only after all four were sent.
C17_LoginOrder ==
    /\ \A n \in 1..Len(irc_sent) : n <= 4 => irc_sent[n] = ExpectedLogin[n]
    /\ irc_pc \in {"reading", "ended"} =>
        Len(irc_sent) >= 4 /\ SubSeq(irc_sent, 1, 4) = ExpectedLogin
    /\ irc_pc = "failed" =>
        /\ Len(irc_sent) < 4
        /\ irc_read = 0 /\ irc_log = <<>>
        /\ \A n \in 1..Len(event_queue) : event_queue[n].type # "Info"
    /\ irc_pc \in {"idle", "caps", "pass", "nick", "join"} =>
        /\ irc_read = 0 /\ irc_log = <<>>
        /\ Len(irc_sent) = (CASE irc_pc = "idle" -> 0 [] irc_pc = "caps" -> 0
                              [] irc_pc = "pass" -> 1 [] irc_pc = "nick" -> 2
                              [] irc_pc = "join" -> 3)

\* All four commands were sent and the read task has read a frame.
C17_Witness ==
    /\ irc_pc = "reading"
    /\ irc_read >= 1
    /\ SubSeq(irc_sent, 1, 4) = ExpectedLogin
    /\ irc_channel = "mychan"

\* C18 as stated: for every line that begins with PING, the reply sent is
\* the line with that leading PING replaced by PONG and the remainder of the
\* line unchanged; no event is emitted for the line.
C18_PongKeepsRemainder ==
    \A n \in 1..Len(irc_log) :
        LET line == irc_log[n].line IN
            (Len(line) >= 4 /\ SubSeq(line, 1, 4) = S_PING
                /\ ~irc_log[n].pong_failed)
            => /\ irc_log[n].sent =
                    << S_PONG \o SubSeq(line, 5, Len(line)) >>
               /\ irc_log[n].events = <<>>

\* C19 as stated: when the write of a PONG fails the IRC read task ends: no
\* line is processed after the PING line, no further frame is read and no
\* further event is emitted.
C19_PongFailureEndsTask ==
    \A n \in 1..Len(irc_log) :
        irc_log[n].pong_failed => n = Len(irc_log) /\ irc_pc = "ended"

----------------------------------------------------------------------------
(* Claims about the end of the EventSub connection.                        *)

\* C20 as stated: a close frame or a read error on the EventSub connection
\* makes the client emit an Error event and end its task; it is the last
\* item the task reads.
C20_CloseOrErrorEndsTask ==
    \A i \in 1..Len(es_frames) :
        es_frames[i].kind \in {"close", "error"}
            => /\ i = Len(es_frames)
               /\ es_task = "ended"
               /\ \E n \in 1..Len(event_queue) : event_queue[n].type = "Error"

----------------------------------------------------------------------------
(* Claims about the Asset Pipeline.                                        *)

----------------------------------------------------------------------------
(* Claims about the loss of the IRC connection.                            *)

\* C21 as stated: when the IRC read task reads a close frame or a read
\* error, it ends and emits one Error event for the loss, and nothing of the
\* EventSub client or the main loop changes.
C21_IrcLossEmitsError ==
    [][(irc_pc = "reading" /\ irc_pc' = "ended" /\ irc_read' = irc_read + 1)
        => /\ Len(event_queue') = Len(event_queue) + 1
           /\ Last(event_queue').type = "Error"
           /\ UNCHANGED <<mainVars, esOwn>>]_vars

----------------------------------------------------------------------------
(* C22, C23: the broadcast Event Bus.                                      *)

IsBusEvent(r) == r.type \notin {"Lagged", "Closed"}

\* C22: a subscriber that has fallen behind the retention window is handed a
\* lagged signal, stays subscribed and is placed at the oldest retained
\* event, which is what it receives next unless it falls behind again; its
\* loop ends exactly when recv reports the closed channel, which it does only
\* once every sender is gone and nothing is left to read; and whatever the
\* subscriber does, the main loop can send its next event.
C22_LaggedSubscriberContinues ==
    /\ []((~bus_closed /\ Len(processed) < MaxEvents)
            => \A evt \in BusEvents : ENABLED RecvEvent(evt))
    /\ []((sub_state = "ended")
            <=> (sub_got # <<>> /\ Last(sub_got).type = "Closed"))
    /\ []((sub_got # <<>> /\ Last(sub_got).type = "Lagged" /\ RecvReady)
            => (RecvResult.type = "Lagged" \/ RecvResult = bus_buf[1]))
    /\ [][(sub_got' # sub_got) =>
            LET r == Last(sub_got') IN
                /\ (r.type = "Lagged") <=> (sub_pos < Oldest)
                /\ (r.type = "Lagged") =>
                      /\ sub_state' = "receiving"
                      /\ sub_pos' = Oldest
                /\ (r.type = "Closed") => (bus_closed /\ sub_pos = bus_sent)
                /\ IsBusEvent(r) =>
                      /\ r = bus_log[sub_pos + 1]
                      /\ sub_state' = "receiving"]_vars

\* A subscriber that lagged, stayed subscribed and then received the oldest
\* retained event.
C22_Witness ==
    \E i \in 1..Len(sub_got) :
        /\ sub_got[i].type = "Lagged"
        /\ i < Len(sub_got)
        /\ IsBusEvent(sub_got[i + 1])
        /\ sub_state = "receiving"

ReceivedEvents == [i \in 1..Len(processed) |-> processed[i].evt]

IsPrefix(a, b) == Len(a) <= Len(b) /\ a = SubSeq(b, 1, Len(a))

NeverLagged == \A i \in 1..Len(sub_got) : sub_got[i].type # "Lagged"

GotEvents ==
    IF sub_got # <<>> /\ Last(sub_got).type = "Closed"
    THEN SubSeq(sub_got, 1, Len(sub_got) - 1) ELSE sub_got

\* C23: the events sent into the broadcast channel are the events the main
\* loop received, in the same order, and a subscriber that has never lagged
\* has received a prefix of them, all of them once its loop has ended.
C23_BusForwardsInOrder ==
    /\ bus_log = ReceivedEvents
    /\ bus_sent = Len(bus_log)
    /\ NeverLagged =>
          /\ IsPrefix(GotEvents, bus_log)
          /\ (sub_state = "ended") => (GotEvents = bus_log)

\* A subscriber that never lagged and has read all of the three sent events
\* up to the end of the channel.
C23_Witness ==
    /\ NeverLagged
    /\ sub_state = "ended"
    /\ Len(bus_log) > Capacity
    /\ GotEvents = bus_log

----------------------------------------------------------------------------
(* C24: dispatch tasks and the main loop.                                  *)

TaskPending(i) == tasks[i].stage # "done"

\* C24: whatever the stages of the spawned dispatch tasks, the main loop can
\* receive, broadcast and process its next event; and a step of a dispatch
\* task (ask_ai returning Ok or Err, send_chat_message returning) leaves the
\* clock reading, the rate limit timestamp, the processed events and the
\* broadcast channel as they were.
C24_TasksNeverStallLoop ==
    /\ [](Len(processed) < MaxDispatchEvents
            => \A evt \in ProducerEvents : ENABLED RecvEvent(evt))
    /\ [][(tasks' # tasks /\ Len(tasks') = Len(tasks))
            => UNCHANGED <<now, last_ai_reply, processed, busVars>>]_vars

\* Two events were received, broadcast and processed, the second one
\* spawning a task, while the task of the first is still waiting for ask_ai.
C24_Witness ==
    /\ Len(processed) = 2
    /\ Len(bus_log) = 2
    /\ Len(tasks) = 2
    /\ tasks[1].src = 1
    /\ tasks[2].src = 2
    /\ tasks[1].stage = "ask_ai"
    /\ TaskPending(2)

----------------------------------------------------------------------------
(* C25: envelopes before the welcome.                                      *)

\* C25 as stated: as long as no session_welcome has been processed on the
\* connection, no envelope of another message type has produced an event; a
\* notification in particular has produced no ChatMessage.
C25_NothingBeforeWelcome ==
    (WelcomesIn(Len(es_frames)) = {})
        => \A k \in 1..Len(event_queue) : event_queue[k].type # "ChatMessage"

----------------------------------------------------------------------------
(* C26: presence events and the target channel.                            *)

\* The characters of the configured channel name.
ChannelChars(channel) ==
    IF channel = "mychan" THEN <<"m", "y", "c", "h", "a", "n">> ELSE <<>>

\* C26 as stated: a line has yielded an event only if it carries the join or
\* the part marker followed by the name of the configured target channel.
C26_OnlyTargetChannel ==
    \A n \in 1..Len(irc_log) :
        irc_log[n].events # <<>>
            => \/ contains(irc_log[n].line,
                           S_join_marker \o ChannelChars(irc_channel))
               \/ contains(irc_log[n].line,
                           S_part_marker \o ChannelChars(irc_channel))

----------------------------------------------------------------------------
(* C27: the order of the IRC events.                                       *)

IsPresence(e) == e.type \in {"UserJoined", "UserLeft"}

\* The lines of the frames read so far, frame after frame.
LinesRead == Flatten([k \in 1..Len(irc_frames) |-> lines(irc_frames[k])])

\* C27: as long as no write of a PONG has failed, the read task has processed
\* every line of every text frame, in the order of the frames and of the
\* lines in each, whether a line was a PING, empty or malformed; what a line
\* yields depends on that line alone; and the presence events emitted are
\* those of the lines in that order.
C27_LinesInOrder ==
    (\A n \in 1..Len(irc_log) : ~irc_log[n].pong_failed)
        => /\ [n \in 1..Len(irc_log) |-> irc_log[n].raw] = LinesRead
           /\ \A n \in 1..Len(irc_log) :
                 \A m \in 1..Len(irc_log) :
                    irc_log[n].raw = irc_log[m].raw
                        => irc_log[n].events = irc_log[m].events
           /\ SelectSeq(event_queue, IsPresence)
                = Flatten([n \in 1..Len(irc_log) |-> irc_log[n].events])

\* A frame with an answered PING and then a JOIN line, and a frame with an
\* empty line, a malformed JOIN line and then a PART line: the JOIN and the
\* PART were emitted in that order.
C27_Witness ==
    /\ irc_frames = <<L_ping_then_join, L_empty_bad_part>>
    /\ Len(irc_log) = 5
    /\ irc_log[1].sent # <<>>
    /\ irc_log[3].line = <<>>
    /\ irc_log[4].events = <<>>
    /\ SelectSeq(event_queue, IsPresence)
          = <<UserJoined(<<"a", "l">>), UserLeft(<<"a", "l">>)>>

----------------------------------------------------------------------------
(* C28: the greeting of a joining user.                                    *)

GreetingsFor(i) ==
    {k \in 1..Len(tasks) : tasks[k].src = i /\ tasks[k].kind = "greeting"}

\* C28: every UserJoined event the main loop has processed has exactly one
\* task, a greeting for the user who joined and no chat reply, however long
\* ago the last reply was; and the step that processes a UserJoined event
\* leaves the rate limit timestamp as it was.
C28_JoinAlwaysGreets ==
    /\ [](\A i \in 1..Len(processed) :
            processed[i].evt.type = "UserJoined"
                => /\ Cardinality(GreetingsFor(i)) = 1
                   /\ ~ReplySpawned(i)
                   /\ \A k \in GreetingsFor(i) :
                         tasks[k].user = processed[i].evt.user)
    /\ [][(Len(processed') = Len(processed) + 1
             /\ Last(processed').evt.type = "UserJoined")
            => /\ last_ai_reply' = last_ai_reply
               /\ Len(tasks') = Len(tasks) + 1]_vars

\* A user joined less than one second after an accepted trigger, inside the
\* window in which chat replies are dropped, and was greeted.
C28_Witness ==
    /\ Len(processed) = 2
    /\ TriggerEligible(1) /\ ReplySpawned(1)
    /\ processed[2].evt.type = "UserJoined"
    /\ processed[2].at - last_ai_reply < OneSec
    /\ GreetingsFor(2) # {}

----------------------------------------------------------------------------
(* C29: what a dispatch task sends.                                        *)

SentBy(k) == {m \in chat_out : m.task = k}

\* "@<user> <reply>"
Mention(user, reply) == <<"@">> \o user \o <<" ">> \o reply

\* C29: every task has at most one chat message, and only once ask_ai has
\* returned; the message is "@<user> <reply>" for the user of the event that
\* spawned the task; a chat message appears only in the step in which ask_ai
\* returns Ok in a task that has sent nothing, so neither a failing ask_ai
\* nor the return of send_chat_message, failed or not, sends anything.
C29_OneMentionedReply ==
    /\ [](\A k \in 1..Len(tasks) :
            /\ Cardinality(SentBy(k)) <= 1
            /\ tasks[k].stage = "ask_ai" => SentBy(k) = {}
            /\ \A m \in SentBy(k) :
                  m.message = Mention(processed[tasks[k].src].evt.user, AiReply))
    /\ [](\A m \in chat_out : m.task \in 1..Len(tasks))
    /\ [][chat_out' # chat_out
            => \E k \in 1..Len(tasks) :
                  /\ tasks[k].stage = "ask_ai"
                  /\ tasks'[k].stage = "send_chat"
                  /\ SentBy(k) = {}
                  /\ chat_out' = chat_out \cup
                        {[task |-> k,
                          message |-> Mention(tasks[k].user, AiReply)]}]_vars
    /\ [][(\E k \in 1..Len(tasks) :
              tasks[k].stage # "done" /\ tasks'[k].stage = "done")
            => chat_out' = chat_out]_vars

\* The second task has sent its reply and ended while the first one is
\* still waiting for ask_ai.
C29_Witness ==
    /\ Len(tasks) = 2
    /\ tasks[1].stage = "ask_ai"
    /\ tasks[2].stage = "done"
    /\ SentBy(2) # {}
    /\ SentBy(1) = {}

----------------------------------------------------------------------------
(* C30: an accepted trigger with an empty prompt.                          *)

\* The received event i was accepted and its prompt, after the stripping of
\* main.rs:379-383, is empty.
AcceptedWithEmptyPrompt(i) ==
    /\ processed[i].evt.type = "ChatMessage"
    /\ processed[i].accepted
    /\ PromptOf(processed[i].evt.text) = <<>>

----------------------------------------------------------------------------
(* C31: failures in the Asset Pipeline.                                    *)

\* The position of the log entry n among the entries of its run.
PosInRun(n) ==
    Cardinality({m \in 1..n : asset_log[m].run = asset_log[n].run})

ItemsOfRun(r) == {n \in 1..Len(asset_log) : asset_log[n].run = r}

RunOver(r) == r < Len(asset_runs) \/ asset_pc = "done"

EventsOfType(t) == {n \in 1..Len(event_queue) : event_queue[n].type = t}

\* The item of log entry e failed at one of its steps: it is neither on disk
\* nor in the map, its download failed, its file could not be read, or its
\* bytes do not decode.
ItemFailed(e, map) ==
    \/ ~e.on_disk /\ e.name \notin map
    \/ e.downloaded /\ e.dl \in {"err", "junk"}
    \/ e.on_disk /\ ~e.read_ok
    \/ e.on_disk /\ e.file = "junk"

----------------------------------------------------------------------------
(* C32: the trigger predicate.                                             *)

T_HEY == <<"H", "E", "Y">>
T_say_hello == <<"s", "a", "y", " ", "H", "e", "l", "l", "o">>
T_hi_all == <<"h", "i", " ", "a", "l", "l">>
T_this == <<"t", "h", "i", "s">>
T_Intro == <<"I", "n", "t", "r", "o">>
T_q == <<"o", "k", "?">>
T_q_inside == <<"?", "o", "k">>
T_empty == <<>>
TriggerTexts ==
    {T_HEY, T_say_hello, T_hi_all, T_this, T_Intro, T_q, T_q_inside, T_empty,
     T_CMD, T_ok}

\* The main loop receiving chat messages with and without triggers.
TriggerNext ==
    \/ Tick
    \/ \E u \in Users : \E t \in TriggerTexts :
          Len(processed) < MaxCommandEvents /\ RecvEvent(ChatMessage(u, t))

SpecTrigger == MainInit /\ [][TriggerNext]_vars

\* The word w stands somewhere in the text s.
Occurs(w, s) ==
    \E i \in 1..(Len(s) - Len(w) + 1) : SubSeq(s, i, i + Len(w) - 1) = w

\* The trigger predicate as the claim words it.
Triggers(text) ==
    LET low == [i \in 1..Len(text) |-> ToLowerChar(text[i])] IN
        \/ Occurs(<<"h", "e", "y">>, low)
        \/ Occurs(<<"h", "e", "l", "l", "o">>, low)
        \/ Occurs(<<"h", "i", " ">>, low)
        \/ Occurs(<<"i", "n", "t", "r", "o">>, low)
        \/ (text # <<>> /\ text[Len(text)] = "?")
        \/ (Len(low) >= 4 /\ SubSeq(low, 1, 4) = <<"!", "b", "o", "t">>)

----------------------------------------------------------------------------
(* C33: writes of the shared Session id.                                   *)

\* C33 as stated: the Session id is written at most once on a connection:
\* once a welcome has been processed the stored id is the id of the first
\* welcome, whatever welcomes follow.
C33_WrittenAtMostOnce ==
    LET ws == WelcomesIn(Len(es_frames)) IN
        ws # {} =>
            LET first == CHOOSE i \in ws : \A j \in ws : i <= j IN
                session_id = es_frames[first].payload.session_id

----------------------------------------------------------------------------
(* C34: frames the EventSub client has no use for.                         *)

IsInvalidEnvelope(f) == f.kind = "text" /\ ~f.is_envelope

IsIgnoredEnvelope(f) ==
    /\ f.kind = "text" /\ f.is_envelope
    /\ f.message_type \notin {"session_welcome", "notification"}

\* C34: reading a text frame that is no valid envelope queues exactly one
\* Error event; reading a keepalive envelope or an envelope of an unknown
\* message type queues nothing; in both cases the Session id stays as it was
\* and the read task keeps running.
C34_UnusableFramesSkipped ==
    [][/\ (es_frames' # es_frames /\ IsInvalidEnvelope(Last(es_frames')))
            => /\ Len(event_queue') = Len(event_queue) + 1
               /\ SubSeq(event_queue', 1, Len(event_queue)) = event_queue
               /\ Last(event_queue').type = "Error"
               /\ session_id' = session_id
               /\ es_task' = "running"
       /\ (es_frames' # es_frames /\ IsIgnoredEnvelope(Last(es_frames')))
            => /\ event_queue' = event_queue
               /\ session_id' = session_id
               /\ es_task' = "running"
      ]_vars

\* An invalid envelope and a keepalive were read, and the chat notification
\* after them was still turned into a ChatMessage: the queue holds the Error
\* and the ChatMessage.
C34_Witness ==
    /\ Len(es_frames) = 3
    /\ IsInvalidEnvelope(es_frames[1])
    /\ IsIgnoredEnvelope(es_frames[2])
    /\ IsChatNotification(es_frames[3])
    /\ Len(event_queue) = 2
    /\ event_queue[1].type = "Error"
    /\ event_queue[2].type = "ChatMessage"

----------------------------------------------------------------------------
(* C35: where presence events come from.                                   *)

U_TestUser == <<"T", "e", "s", "t", "U", "s", "e", "r">>

\* main.rs:451-463: the key arm of the main loop's select!, F1 pressed: the
\* loop sends UserJoined("TestUser") into its own event channel.
KeyF1 ==
    /\ Len(processed) + Len(event_queue) < MaxEvents
    /\ event_queue' = Append(event_queue, UserJoined(U_TestUser))
    /\ UNCHANGED esOwn
    /\ UNCHANGED <<mainVars, authVars, ircVars, assetVars, busVars>>

KeysFrames ==
    {IrcFrame("text", L_join), IrcFrame("text", L_part),
     IrcFrame("text", L_privmsg)}

\* The main loop with its keyboard and the IRC read task feeding it.
KeysNext ==
    \/ \E f \in KeysFrames : IrcRead(f, 0)
    \/ RecvQueued
    \/ KeyF1

SpecKeys == MainInit /\ [][KeysNext]_vars

\* The presence events the IRC read task has made from the lines it read.
IrcEvents == Flatten([n \in 1..Len(irc_log) |-> irc_log[n].events])

\* C35 as stated: every UserJoined and UserLeft event the main loop has
\* processed and broadcast is one the IRC client made from a line it read,
\* and every greeting task is for a user of such a join line.
C35_OnlyClientsMakeEvents ==
    /\ \A i \in 1..Len(processed) :
          processed[i].evt.type \in {"UserJoined", "UserLeft"}
              => \E n \in 1..Len(IrcEvents) : IrcEvents[n] = processed[i].evt
    /\ \A i \in 1..Len(bus_log) :
          bus_log[i].type \in {"UserJoined", "UserLeft"}
              => \E n \in 1..Len(IrcEvents) : IrcEvents[n] = bus_log[i]
    /\ \A k \in 1..Len(tasks) :
          tasks[k].kind = "greeting"
              => \E n \in 1..Len(IrcEvents) :
                    IrcEvents[n] = UserJoined(tasks[k].user)

----------------------------------------------------------------------------
(* C36: the bodies the device flow accepts.                                *)

DeviceRequested == \E i \in 1..Len(auth_trace) : auth_trace[i].step = "device"

\* C36 as stated: a device-code request answered with a success status and a
\* body that carries device_code, user_code, verification_uri and interval
\* is accepted, the flow going on to poll; and a token body with
\* access_token and no refresh_token is accepted as a credential.
C36_DocumentedBodiesAccepted ==
    /\ (/\ DeviceRequested
        /\ dev_resp.net /\ dev_resp.status_ok
        /\ DeviceFieldsFour \subseteq dev_resp.fields)
          => \A i \in 1..Len(auth_trace) :
                auth_trace[i].step = "device" => auth_trace[i].outcome = "started"
    /\ \A i \in 1..Len(dev_log) :
          (dev_log[i].op = "poll" /\ dev_log[i].decision = "granted")
              => dev_grant.granted

----------------------------------------------------------------------------
(* C37: what changes the rate limit timestamp.                             *)

FrameEventsIn ==
    {ChatMessage(U_bob, T_hey), ChatMessage(U_bob, T_ok),
     ChatMessage(U_BoT, T_hey), UserJoined(U_bob), UserLeft(U_bob)}

\* The main loop, the clock and the dispatch tasks; the tasks spawned after
\* the first MaxDispatchEvents - 1 never hear from the responder.
FrameNext ==
    \/ Tick
    \/ \E evt \in FrameEventsIn : RecvEvent(evt)
    \/ \E i \in 1..(MaxDispatchEvents - 1) :
          \E ok \in BOOLEAN : AiReturns(i, ok)
    \/ \E i \in 1..(MaxDispatchEvents - 1) : ChatSendReturns(i)

SpecFrame == MainInit /\ [][FrameNext]_vars

\* The step processes a received event.
Processes == Len(processed') = Len(processed) + 1

\* C37: the rate limit timestamp changes only in a step in which the main
\* loop accepts a trigger, and then to a clock reading not earlier than the
\* one the trigger was accepted at; and a trigger-eligible message of another
\* user processed at least one second after the timestamp of the last
\* accepted one is accepted, whatever was dropped in between and whatever the
\* stages of the dispatch tasks.
C37_TimestampFrame ==
    /\ [][last_ai_reply' # last_ai_reply
            => /\ Processes
               /\ Last(processed').evt.type = "ChatMessage"
               /\ Last(processed').accepted
               /\ last_ai_reply' >= Last(processed').at]_vars
    /\ [][(/\ Processes
           /\ Last(processed').evt.type = "ChatMessage"
           /\ ~eq_ignore_ascii_case(Last(processed').evt.user, BotLogin)
           /\ is_trigger(Last(processed').evt.text)
           /\ Last(processed').at - last_ai_reply >= OneSec)
            => /\ Last(processed').accepted
               /\ Len(tasks') = Len(tasks) + 1]_vars

\* A trigger was accepted, the next one dropped, and a third one accepted
\* one second after the timestamp of the first while the task of the first
\* was still waiting for the responder.
C37_Witness ==
    /\ Len(processed) = 3
    /\ TriggerEligible(1) /\ TriggerEligible(2) /\ TriggerEligible(3)
    /\ processed[1].accepted /\ ~processed[2].accepted /\ processed[3].accepted
    /\ Len(tasks) = 2
    /\ tasks[1].stage = "ask_ai"

----------------------------------------------------------------------------
(* C38, C40: the startup of run_bot followed by the main loop.             *)

StartupFrames ==
    {Welcome("abc123"), Notification(EventJson(TRUE, U_bob, TRUE, T_hey))}

\* run_bot from connect_eventsub_ws on: the EventSub read task and the Asset
\* Pipeline (here with a failing mapping fetch) send events from the moment
\* they are spawned, and the main loop receives them once the startup has
\* reached it.  Nothing reads the broadcast channel.
StartupNext ==
    \/ \E ok \in BOOLEAN : EsConnect(ok)
    \/ \E f \in StartupFrames : EsFrame(f)
    \/ EsWaitEnds
    \/ EsReadSessionId
    \/ \E ok \in BOOLEAN : ConnectIrc(ok)
    \/ \E resp \in SubscribeResponses : Subscribe(resp)
    \/ asset_pc = "idle" /\ AssetStart(FALSE, {})
    \/ es_pc = "main_loop" /\ RecvQueued

SpecStartup == InitEventSub /\ [][StartupNext]_vars

\* Every event sent to the main loop so far: those it has received and those
\* still in its channel.
AllEvents == ReceivedEvents \o event_queue

IsSubscriptionEvent(e) ==
    e = InfoEvent(S_subscribed) \/ e = ErrorEvent(S_sub_failed)

\* C40: the subscription is called once, when connect_eventsub_ws has
\* returned an id and the IRC client has connected, and whatever it returns
\* run_bot goes on to the main loop; the call has queued exactly one event,
\* an Info when it succeeded and an Error when it failed, and there is no
\* other subscription event.
C40_SubscriptionFailureTolerated ==
    /\ [](/\ Len(sub_calls) <= 1
          /\ Len(sub_requests) <= Len(sub_calls)
          /\ (es_pc = "main_loop") <=> (Len(sub_calls) = 1)
          /\ sub_calls # <<>>
                => /\ es_result.ok
                   /\ \E i \in 1..Len(AllEvents) :
                        /\ AllEvents[i] = InfoEvent(S_irc_connected)
                        /\ \E j \in (i + 1)..Len(AllEvents) :
                              IsSubscriptionEvent(AllEvents[j])
          /\ SelectSeq(AllEvents, IsSubscriptionEvent)
                = IF sub_calls = <<>> THEN <<>>
                  ELSE IF sub_calls[1].ok THEN <<InfoEvent(S_subscribed)>>
                  ELSE <<ErrorEvent(S_sub_failed)>>)
    /\ [][sub_calls' # sub_calls
            => /\ es_pc = "irc_connected"
               /\ es_pc' = "main_loop"
               /\ Len(event_queue') = Len(event_queue) + 1]_vars

\* The subscription was rejected, and the main loop has started and
\* processed three events, the Error of the subscription among them.
C40_Witness ==
    /\ Len(sub_calls) = 1
    /\ ~sub_calls[1].ok
    /\ es_pc = "main_loop"
    /\ Len(processed) = 3
    /\ \E i \in 1..Len(processed) :
          processed[i].evt = ErrorEvent(S_sub_failed)

IsEventSubEvent(e) ==
    \/ e.type = "ChatMessage"
    \/ e \in {ErrorEvent(S_ws_closed), ErrorEvent(S_parse_error),
              ErrorEvent(S_welcome_failed)}

IsAssetEvent(e) ==
    e \in {InfoEvent(S_map_fetched), ErrorEvent(S_fetch_failed)}

IsStartupEvent(e) == e = InfoEvent(S_irc_connected) \/ IsSubscriptionEvent(e)

\* The broadcast channel has dropped an event nobody read.
BusOverrun == bus_sent > Len(bus_buf)

\* C38: the events the main loop has received followed by those still in its
\* channel are, for each producer, exactly the events that producer sent, in
\* the order it sent them, those sent before the main loop started included;
\* each step of the main loop takes the oldest event of the channel and only
\* that one; no step removes or reorders an event the main loop has not yet
\* received; and this holds while the broadcast channel overruns.
C38_QueueLosesNothing ==
    /\ [](/\ SelectSeq(AllEvents, IsEventSubEvent)
                = Flatten([i \in 1..Len(es_frames) |-> FrameEvents(es_frames[i])])
          /\ SelectSeq(AllEvents, IsAssetEvent)
                = [r \in 1..Len(asset_runs) |->
                      IF asset_runs[r].map_ok THEN InfoEvent(S_map_fetched)
                      ELSE ErrorEvent(S_fetch_failed)]
          /\ Len(SelectSeq(AllEvents, IsStartupEvent))
                = (IF es_pc \in {"irc_connected", "main_loop"} THEN 1 ELSE 0)
                     + Len(sub_calls)
          /\ \A i \in 1..Len(AllEvents) :
                \/ IsEventSubEvent(AllEvents[i])
                \/ IsAssetEvent(AllEvents[i])
                \/ IsStartupEvent(AllEvents[i])
          /\ es_pc # "main_loop" => processed = <<>>)
    /\ [][/\ IsPrefix(AllEvents, AllEvents')
          /\ Processes
                => /\ Last(processed').evt = Head(event_queue)
                   /\ event_queue' = Tail(event_queue)
                   /\ AllEvents' = AllEvents]_vars

\* Four events were sent before the main loop started; the main loop has
\* then received three of them in the order sent, the fourth is still in its
\* channel, and the broadcast channel, which nobody reads, has dropped one.
C38_Witness ==
    /\ Len(processed) = 3
    /\ Len(es_frames) >= 2
    /\ ReceivedEvents = SubSeq(AllEvents, 1, 3)
    /\ \E i \in 1..Len(processed) : IsEventSubEvent(processed[i].evt)
    /\ \E i \in 1..Len(processed) : IsAssetEvent(processed[i].evt)
    /\ event_queue # <<>>
    /\ BusOverrun
    /\ sub_got = <<>>

InPollLoop == auth_pc \in {"dev_sleep", "dev_poll"}

\* An answer of the token endpoint other than a readable non-success body
\* reporting authorization_pending or slow_down.
EndsPolling(resp) ==
    \/ ~resp.net
    \/ resp.status_ok
    \/ ~resp.readable
    \/ ~Tolerated(resp.text)

\* The provider answers a poll with success or with a non-tolerated error,
\* or the request fails.
FinalAnswer ==
    \E resp \in PollResponses : \E io \in SaveOutcomes :
        EndsPolling(resp) /\ DevicePoll(resp, io)

\* C39: the device flow leaves its poll loop only in a poll whose answer is
\* a success, a non-tolerated error or a failed request; an answer of
\* authorization_pending or slow_down leads to another sleep and poll,
\* whatever the number of polls made and whatever the device-code response
\* said; and if the provider, polled again and again, eventually gives
\* another answer, the flow eventually returns.
C39_PollsUntilAnswered ==
    /\ [][InPollLoop /\ ~InPollLoop'
            => /\ auth_pc = "dev_poll"
               /\ Len(dev_log') = Len(dev_log) + 1
               /\ Last(dev_log').op = "poll"
               /\ Last(dev_log').decision \in {"granted", "error"}
               /\ \/ Last(dev_log').text = <<>>
                  \/ ~Tolerated(Last(dev_log').text)]_vars
    /\ [][(/\ auth_pc = "dev_poll"
           /\ Last(dev_log').op = "poll"
           /\ Last(dev_log').text # <<>>
           /\ Tolerated(Last(dev_log').text)) => auth_pc' = "dev_sleep"]_vars
    /\ [](auth_pc = "dev_sleep" => ENABLED DeviceSleep)
    /\ [](auth_pc = "dev_poll" => ENABLED FinalAnswer)
    /\ SF_vars(FinalAnswer)
          => (InPollLoop ~> auth_pc \in {"authenticated", "aborted"})

\* Polls answered slow_down and authorization_pending were each followed by
\* another sleep and poll, and the flow then returned the granted token.
C39_Witness ==
    /\ auth_pc = "authenticated"
    /\ dev_grant.granted
    /\ Len(dev_log) = 2 * MaxPolls
    /\ dev_log[1].op = "sleep"
    /\ dev_log[2].text = E_slow
    /\ dev_log[4].text = E_pending
    /\ dev_log[2 * MaxPolls].decision = "granted"

====
